---- MODULE Spec2Model ----
(***************************************************************************)
(* State-machine model of the federated search aggregator of server.ts:   *)
(* the /api/search handler, fetchFromInstance, the process-wide           *)
(* searchCache and instanceHealth maps; and of the batched handler        *)
(* onRequest of unnamed/part_001.                                          *)
(*                                                                         *)
(* One action is one run of JavaScript between two suspension points (the *)
(* awaits on fetch / response.json() / response.text() / Promise.any).    *)
(* The browser client of src/App.tsx is modelled the same way: one action  *)
(* is one event handler or one continuation of fetchCategory.              *)
(* Time is Date.now() in milliseconds; the clock advances by the steps of  *)
(* TickSteps so that the boundary ages of both windows are reached.        *)
(***************************************************************************)
EXTENDS Integers, Sequences, FiniteSets, Bags, TLC

VARIABLES
    now,             \* Date.now()
    ticks,           \* number of clock advances so far
    searchCache,     \* server.ts:70  Map cacheKey -> { data, timestamp }
    instanceHealth,  \* server.ts:71  Map instance -> { failures, lastFailure }
    req,             \* per request: the handler's locals and its position
    scenario,        \* what is under study (fixed by the initial state):
                     \*   registry    the instances of SEARXNG_INSTANCES in use
                     \*   requests    the requests that arrive
                     \*   queries, categories, safes   the parameters clients send
                     \*   maxTotalInstances   the scaled value of that constant
    worker,          \* unnamed/part_001: the locals and position of one onRequest run
    client           \* src/App.tsx: the component's state and its fetches in flight

vars == <<now, ticks, searchCache, instanceHealth, req, scenario, worker, client>>

-----------------------------------------------------------------------------
(* Program constants *)

CACHE_TTL == 600000
FAILURE_THRESHOLD == 3
COOLDOWN_PERIOD == 300000

\* batchSize (8) and the broadened fallback's slice(0, 8) are scaled 4:1 so
\* that a registry of three instances spans two batches and the fallback's
\* limit binds.
batchSize == 2
fallbackLimit == 2

\* server.ts:216  maxTotalInstances (40), scaled with the scenario: 4 where
\* the registry is to span two batches, 2 where the registry is to have
\* more instances than maxTotalInstances, as the source's 55 against 40
maxTotalInstances == scenario.maxTotalInstances

\* The registry, deduplicated (server.ts:5-67), scaled to three instances.
SEARXNG_INSTANCES == {"https://a.test", "https://b.test", "https://c.test"}

(* Bounds of the model *)
MaxTicks == 1           \* clock advances per behaviour

\* Request identities
Requests == {1, 2}

\* The clock's steps: an age inside the cooldown and inside the TTL
\* (COOLDOWN_PERIOD, the cooldown's last instant), one past the cooldown, and
\* the TTL's own end.  A scenario takes the steps its windows need.
TickSteps == {COOLDOWN_PERIOD, COOLDOWN_PERIOD + 1, CACHE_TTL}

-----------------------------------------------------------------------------
(* JavaScript values *)

Undef == "<undefined>"      \* undefined / absent property or parameter
Null == "<null>"
Threw == "<exception>"      \* the evaluation threw

Truthy(x) == x \notin {Undef, Null, ""}
OrElse(x, y) == IF Truthy(x) THEN x ELSE y          \* x || y

Min(a, b) == IF a < b THEN a ELSE b

\* Array.prototype.slice(from, to) with 0-based from, exclusive to
Slice(s, from, to) == SubSeq(s, from + 1, Min(to, Len(s)))

Range(s) == {s[k] : k \in 1..Len(s)}

Perms(S) == {p \in [1..Cardinality(S) -> S] : \A x \in S : \E k \in 1..Cardinality(S) : p[k] = x}

PositionOf(s, x) == CHOOSE k \in 1..Len(s) : s[k] = x

RECURSIVE SelectSeqBy(_, _, _)
\* Array.prototype.filter with the predicate given as the set of kept items
SelectSeqBy(s, keep, k) ==
    IF k > Len(s) THEN <<>>
    ELSE (IF s[k] \in keep THEN <<s[k]>> ELSE <<>>) \o SelectSeqBy(s, keep, k + 1)

-----------------------------------------------------------------------------
(* Request parameters (req.query) *)

QueryParams == {Undef, "", "cats"}
CategoryParams == {Undef, "general", "images", "videos"}
SafeParams == {Undef, "true", "false"}

\* Faulty variant: only an absent parameter is refused
QueryMissing_OnlyUndefined(q) == q = Undef

\* server.ts:183  if (!query)
QueryMissing(q) == ~Truthy(q)

\* server.ts:180  (req.query.category as string) || 'general'
CategoryOf(c) == OrElse(c, "general")

\* server.ts:181  req.query.safe === 'true'
SafeOf(s) == s = "true"

BoolText(b) == IF b THEN "true" ELSE "false"

\* Faulty variant: the key leaves the safe flag out
CacheKey_NoSafe(query, category, safebased) == query \o ":" \o category

\* server.ts:188  `${query}:${category}:${safebased}`
CacheKey(query, category, safebased) ==
    query \o ":" \o category \o ":" \o BoolText(safebased)

\* Faulty variant: the age test reversed
CacheFresh_Reversed(entry, t) == t - entry.timestamp > CACHE_TTL

\* server.ts:190  Date.now() - cached.timestamp < CACHE_TTL
CacheFresh(entry, t) == t - entry.timestamp < CACHE_TTL

\* server.ts:189-190  cached && fresh
CacheHit(cache, key, t) == key \in DOMAIN cache /\ CacheFresh(cache[key], t)

-----------------------------------------------------------------------------
(* Strings: the URLs, texts and engine names the backends of the model use, *)
(* with String.prototype.includes / startsWith and new URL(...) tabulated   *)
(* over them.                                                               *)

HostOfInstance(inst) ==
    CASE inst = "https://a.test" -> "a.test"
      [] inst = "https://b.test" -> "b.test"
      [] inst = "https://c.test" -> "c.test"

RelativePaths == {"/local/page", "/thumb.png"}

\* <<url, hostname>> for every string that new URL(url) accepts
HostTable ==
    { <<"https://example.org/cats", "example.org">>,
      <<"https://www.youtube.com/watch?v=1", "www.youtube.com">>,
      <<"https://pics.example/cat.png", "pics.example">>,
      <<"http://localhost", "localhost">> }
    \cup { <<inst \o p, HostOfInstance(inst)>> : inst \in SEARXNG_INSTANCES, p \in RelativePaths }

\* new URL(u).hostname; Threw for "Invalid URL" (a relative link, "#")
Hostname(u) ==
    IF \E e \in HostTable : e[1] = u
    THEN (CHOOSE e \in HostTable : e[1] = u)[2]
    ELSE Threw

\* new URL(path, base).toString() for a root-relative path
ResolveUrl(path, base) == base \o path

StartsWithSlash(s) == s \in RelativePaths

\* s.includes(sub), for a string s
Includes(s, sub) ==
    <<s, sub>> \in { <<"https://www.youtube.com/watch?v=1", "youtube.com">>,
                     <<"bing images", "images">>,
                     <<"a video about cats", "video">> }

\* s?.includes(sub): undefined (falsy) when s is absent
OptIncludes(s, sub) == s # Undef /\ Includes(s, sub)

\* server.ts:272  the favicon URL template
Favicon(domain) == "https://www.google.com/s2/favicons?domain=" \o domain \o "&sz=32"

-----------------------------------------------------------------------------
(* Backend JSON result items (the fields the handler reads) *)

RawItem(title, url, content, img_src, template, category, engine) ==
    [title |-> title, url |-> url, content |-> content, snippet |-> Undef,
     img_src |-> img_src, thumbnail |-> Undef, template |-> template,
     category |-> category, engine |-> engine, iframe_src |-> Undef]

textItem == RawItem("Cats", "https://example.org/cats", "about cats", Undef, Undef, Undef, "google")
imgItem == RawItem("Cat picture", "https://pics.example/cat.png", Undef, "https://pics.example/cat.png", Undef, Undef, Undef)
vidItem == RawItem("Cat clip", "https://example.org/cats", Undef, Undef, "video", Undef, Undef)
noUrlItem == RawItem(Undef, Undef, "a video about cats", Undef, Undef, Undef, "bing images")
newsItem == RawItem("Cat news", "/local/page", "about cats", "/thumb.png", Undef, "news", "google")

\* The results arrays a JSON answer can carry
JsonResults ==
    { <<>>, <<textItem>>, <<imgItem, vidItem, textItem>>, <<noUrlItem>>, <<newsItem>> }

\* What one outbound JSON request can end in.  hasResults is whether the body
\* has a results property at all.
JsonOutcomes ==
    { [kind |-> "neterr", hasResults |-> FALSE, results |-> <<>>],     \* fetch rejects
      [kind |-> "status", hasResults |-> FALSE, results |-> <<>>],     \* !response.ok
      [kind |-> "nonjson", hasResults |-> FALSE, results |-> <<>>],    \* response.json() throws
      [kind |-> "json", hasResults |-> FALSE, results |-> <<>>] }      \* JSON without results
    \cup { [kind |-> "json", hasResults |-> TRUE, results |-> rs] : rs \in JsonResults }

\* Faulty variant: any JSON body counts as an answer
Usable_AnyJson(outcome) == outcome.kind = "json"

\* server.ts:104-108  response.ok && data.results is a non-empty array
Usable(outcome) ==
    /\ outcome.kind = "json"
    /\ outcome.hasResults
    /\ Len(outcome.results) > 0

\* server.ts:249-251  the images predicate of the batch winner's filter
KeepImage(r) ==
    \/ Truthy(r.img_src)
    \/ Truthy(r.thumbnail)
    \/ r.template = "image"
    \/ r.category = "images"
    \/ OptIncludes(r.content, "img")
    \/ OptIncludes(r.engine, "images")

\* server.ts:254  the marker disjuncts evaluated before r.url is read
VideoMarked(r) == r.template = "video" \/ r.category = "videos" \/ r.category = "video"

\* server.ts:255  r.url.includes(...) throws a TypeError for an item without
\* url, unless an earlier disjunct already holds
VideoThrows(r) == ~VideoMarked(r) /\ r.url = Undef

\* server.ts:253-257  the videos predicate of the batch winner's filter
KeepVideo(r) ==
    \/ VideoMarked(r)
    \/ /\ r.url # Undef
       /\ \/ Includes(r.url, "youtube.com") \/ Includes(r.url, "vimeo.com")
          \/ Includes(r.url, "dailymotion.com") \/ Includes(r.url, "youtu.be")
          \/ Truthy(r.iframe_src)
          \/ OptIncludes(r.content, "video")

\* server.ts:247-258  filtered; threw when the predicate raised
FilterWinner(category, results) ==
    IF category = "images"
    THEN [threw |-> FALSE,
          items |-> SelectSeqBy(results, {r \in Range(results) : KeepImage(r)}, 1)]
    ELSE IF category = "videos"
    THEN IF \E r \in Range(results) : VideoThrows(r)
         THEN [threw |-> TRUE, items |-> <<>>]
         ELSE [threw |-> FALSE,
               items |-> SelectSeqBy(results, {r \in Range(results) : KeepVideo(r)}, 1)]
    ELSE [threw |-> FALSE, items |-> results]

\* server.ts:263-264  domain, "unknown" when new URL throws
DomainOf(url) ==
    LET h == Hostname(url) IN IF h = Threw THEN "unknown" ELSE h

\* server.ts:261-279  one SearchResult of the batch winner
MapWinnerItem(r, category) ==
    LET domain == DomainOf(OrElse(r.url, "http://localhost")) IN
    [type |-> OrElse(r.category, category),
     title |-> OrElse(r.title, "No Title"),
     url |-> OrElse(r.url, "#"),
     snippet |-> OrElse(r.content, OrElse(r.snippet, "")),
     thumbnail |-> OrElse(r.img_src, OrElse(r.thumbnail, Null)),
     favicon |-> Favicon(domain),
     domain |-> domain,
     engine |-> r.engine]

MapWinner(filtered, category) ==
    [k \in 1..Len(filtered) |-> MapWinnerItem(filtered[k], category)]

\* server.ts:262  if (r.engine) enginesUsed.add(r.engine)
EnginesOf(filtered) == {filtered[k].engine : k \in 1..Len(filtered)} \ {Undef, Null, ""}

-----------------------------------------------------------------------------
(* The HTML-scrape fallback's extraction (server.ts:311-345).  An element   *)
(* is one node matched by resultSelectors, described by what the handler's  *)
(* cheerio queries return on it.                                            *)

Element(link, linkText, href, snippet, imgSrc, imgDataSrc, classImages, classVideos) ==
    [link |-> link,                  \* $el.find("a.result__a, h3 a, ...").first().length
     linkText |-> linkText,          \* $link.text().trim()
     titleText |-> "",               \* $el.find(".title, .result-title").text().trim()
     href |-> href,                  \* $link.attr("href")
     snippet |-> snippet,            \* first snippet element's text
     imgSrc |-> imgSrc,              \* first img's src
     imgDataSrc |-> imgDataSrc,      \* first img's data-src
     classImages |-> classImages,    \* $el.hasClass("result-images")
     classVideos |-> classVideos]    \* $el.hasClass("result-videos")

elText == Element(TRUE, "Cats", "https://example.org/cats", "about cats", Undef, Undef, FALSE, FALSE)
elNoLink == Element(FALSE, "", Undef, "no link here", Undef, Undef, FALSE, FALSE)
elRelImg == Element(TRUE, "Cat picture", "/local/page", "", Undef, "/thumb.png", TRUE, FALSE)
elYoutube == Element(TRUE, "Cat clip", "https://www.youtube.com/watch?v=1", "", Undef, Undef, FALSE, TRUE)
elNoHref == Element(TRUE, "", Undef, "", Undef, Undef, FALSE, FALSE)

\* The result pages a scrape request can receive
HtmlPages ==
    { <<>>, <<elText, elNoLink>>, <<elRelImg, elRelImg>>, <<elYoutube>>, <<elNoHref>> }

ScrapeOutcomes ==
    { [kind |-> "neterr", page |-> <<>>],       \* fetch rejects or times out
      [kind |-> "status", page |-> <<>>] }      \* !htmlResponse.ok
    \cup { [kind |-> "html", page |-> pg] : pg \in HtmlPages }

\* server.ts:318-319  url, root-relative links resolved against the instance
ScrapedUrl(el, inst) ==
    LET url == OrElse(el.href, "#") IN
    IF StartsWithSlash(url) THEN ResolveUrl(url, inst) ELSE url

\* server.ts:322-323  thumbnail
ScrapedThumbnail(el, inst) ==
    LET t == OrElse(el.imgSrc, OrElse(el.imgDataSrc, Null)) IN
    IF Truthy(t) /\ StartsWithSlash(t) THEN ResolveUrl(t, inst) ELSE t

\* server.ts:325-327  type
ScrapedType(el, inst, category) ==
    IF el.classVideos \/ Includes(ScrapedUrl(el, inst), "youtube.com") THEN "videos"
    ELSE IF el.classImages \/ Truthy(ScrapedThumbnail(el, inst)) THEN "images"
    ELSE category

\* server.ts:315, 329-330  the element is skipped before the push
ScrapeSkips(el, inst, category) ==
    \/ ~el.link
    \/ category = "images" /\ ~Truthy(ScrapedThumbnail(el, inst))
    \/ category = "videos" /\ ~Includes(ScrapedUrl(el, inst), "youtube.com")

\* server.ts:332-344  the pushed SearchResult
ScrapedItem(el, inst, category) ==
    LET url == ScrapedUrl(el, inst)
        domain == DomainOf(url)
    IN [type |-> ScrapedType(el, inst, category),
        title |-> OrElse(OrElse(el.linkText, el.titleText), "No Title"),
        url |-> url,
        snippet |-> OrElse(el.snippet, ""),
        thumbnail |-> ScrapedThumbnail(el, inst),
        favicon |-> Favicon(domain),
        domain |-> domain,
        engine |-> Undef]

RECURSIVE ScrapeFrom(_, _, _, _, _)
\* server.ts:312-345  the .each loop; acc is scrapedResults so far
ScrapeFrom(page, inst, category, k, acc) ==
    IF k > Len(page) THEN acc
    ELSE LET el == page[k]
             item == ScrapedItem(el, inst, category)
         IN IF \/ ScrapeSkips(el, inst, category)
               \/ \E j \in 1..Len(acc) : acc[j].url = item.url      \* line 334
            THEN ScrapeFrom(page, inst, category, k + 1, acc)
            ELSE ScrapeFrom(page, inst, category, k + 1, Append(acc, item))

Scrape(page, inst, category) == ScrapeFrom(page, inst, category, 1, <<>>)

-----------------------------------------------------------------------------
(* The broadened fallback's extraction (server.ts:365-387, 403-423) *)

\* server.ts:370-371 (videos), 407 (images)
KeepFallback(r, category) ==
    IF category = "videos"
    THEN \/ VideoMarked(r)
         \/ /\ r.url # Undef
            /\ \/ Includes(r.url, "youtube.com") \/ Includes(r.url, "youtu.be")
               \/ Includes(r.url, "vimeo.com")
    ELSE Truthy(r.img_src) \/ Truthy(r.thumbnail)

\* server.ts:373-381, 408-416  one extracted SearchResult.  Here the
\* thumbnail is r.img_src || r.thumbnail without the null default.
MapFallbackItem(r, category) ==
    LET domain == Hostname(OrElse(r.url, "http://localhost")) IN
    [type |-> category,
     title |-> OrElse(r.title, "No Title"),
     url |-> OrElse(r.url, "#"),
     snippet |-> OrElse(r.content, ""),
     thumbnail |-> OrElse(r.img_src, r.thumbnail),
     favicon |-> Favicon(domain),
     domain |-> domain,
     engine |-> r.engine]

\* server.ts:365-387  the body of the try for one fallback instance:
\* threw when the filter (r.url.includes on a missing url) or the map
\* (new URL on an invalid url) raised, which the catch of line 389 swallows
ExtractFallback(outcome, category) ==
    IF outcome.kind # "json" \/ ~outcome.hasResults
    THEN [threw |-> outcome.kind \in {"neterr", "nonjson"}, items |-> <<>>]
    ELSE LET rs == outcome.results
             kept == SelectSeqBy(rs, {r \in Range(rs) : KeepFallback(r, category)}, 1)
         IN IF \/ category = "videos" /\ \E r \in Range(rs) : VideoThrows(r)
               \/ \E k \in 1..Len(kept) : Hostname(OrElse(kept[k].url, "http://localhost")) = Threw
            THEN [threw |-> TRUE, items |-> <<>>]
            ELSE [threw |-> FALSE,
                  items |-> [k \in 1..Len(kept) |-> MapFallbackItem(kept[k], category)]]

-----------------------------------------------------------------------------
(* Health tracker (server.ts:71-74, 196-206, 230-235) *)

\* Faulty variant: a count equal to the threshold still passes
IsHealthy_AtThreshold(h, inst, t) ==
    \/ inst \notin DOMAIN h
    \/ h[inst].failures <= FAILURE_THRESHOLD
    \/ t - h[inst].lastFailure > COOLDOWN_PERIOD

\* server.ts:198-205  the predicate of SEARXNG_INSTANCES.filter
IsHealthy(h, inst, t) ==
    \/ inst \notin DOMAIN h
    \/ h[inst].failures < FAILURE_THRESHOLD
    \/ t - h[inst].lastFailure > COOLDOWN_PERIOD

\* Faulty variant: every record whose cooldown has elapsed is deleted
FilterDeletes_AnyExpired(h, inst, t) ==
    /\ inst \in DOMAIN h
    /\ t - h[inst].lastFailure > COOLDOWN_PERIOD

\* server.ts:201-203  the record is deleted when the third test passes
FilterDeletes(h, inst, t) ==
    /\ inst \in DOMAIN h
    /\ ~(h[inst].failures < FAILURE_THRESHOLD)
    /\ t - h[inst].lastFailure > COOLDOWN_PERIOD

\* Faulty variant: the filter never deletes a record
HealthAfterFilter_Keeps(h, t) == h

\* instanceHealth after the filter has run over the whole registry
HealthAfterFilter(h, t) ==
    [inst \in {x \in DOMAIN h : ~FilterDeletes(h, x, t)} |-> h[inst]]

\* Faulty variant: the increment of an existing record is lost
RecordFailure_KeepsCount(h, inst, t) ==
    [x \in DOMAIN h \cup {inst} |->
        IF x = inst
        THEN [failures |-> IF inst \in DOMAIN h THEN h[inst].failures ELSE 1,
              lastFailure |-> t]
        ELSE h[x]]

\* Faulty variant: the record is started afresh on every failure
RecordFailure_Restart(h, inst, t) ==
    [x \in DOMAIN h \cup {inst} |->
        IF x = inst THEN [failures |-> 1, lastFailure |-> t] ELSE h[x]]

\* server.ts:232-233  the .catch of a batch task
RecordFailure(h, inst, t) ==
    LET health == IF inst \in DOMAIN h THEN h[inst] ELSE [failures |-> 0, lastFailure |-> 0] IN
    [x \in DOMAIN h \cup {inst} |->
        IF x = inst THEN [failures |-> health.failures + 1, lastFailure |-> t] ELSE h[x]]

RECURSIVE RecordAll(_, _, _)
\* the .catch handlers of several tasks that reject in the same turn
RecordAll(h, insts, t) ==
    IF insts = {} THEN h
    ELSE LET inst == CHOOSE x \in insts : TRUE IN
         RecordAll(RecordFailure(h, inst, t), insts \ {inst}, t)

\* server.ts:143-149  the body of GET /api/health, with registry for
\* SEARXNG_INSTANCES and h for instanceHealth
ApiHealth(registry, h) ==
    [status |-> "ok",
     instances |-> Cardinality(registry),
     healthy |-> Cardinality(registry) - Cardinality(DOMAIN h)]

-----------------------------------------------------------------------------
(* Outbound requests *)

\* server.ts:77-81
CategoriesToTry(category) ==
    IF category = "images" THEN <<"images", "it">>
    ELSE IF category = "videos" THEN <<"videos", "video">>
    ELSE <<IF category = "general" THEN "" ELSE category>>

\* server.ts:82, 296, 359, 397
SafeParam(safebased) == IF safebased THEN "1" ELSE "0"

\* server.ts:93  GET {instance}/search?q=..&format=json&categories=..&safesearch=..
JsonRequest(inst, category, safebased, attempt) ==
    [inst |-> inst, phase |-> "json", categories |-> CategoriesToTry(category)[attempt],
     safesearch |-> SafeParam(safebased)]

\* server.ts:295-297  the scrape request (no format parameter)
ScrapeRequest(inst, category, safebased) ==
    [inst |-> inst, phase |-> "scrape",
     categories |-> IF category = "general" THEN "" ELSE category,
     safesearch |-> SafeParam(safebased)]

\* server.ts:359-360, 397-398  the broadened fallback's request (general results)
FallbackRequest(inst, safebased) ==
    [inst |-> inst, phase |-> "fallback", categories |-> "", safesearch |-> SafeParam(safebased)]

\* Faulty variant: fetch does not look at the signal
FetchIssued_IgnoresSignal(aborted) == TRUE

\* fetch(url, { signal }): with an already aborted signal the promise rejects
\* and nothing is sent (server.ts:96-102)
FetchIssued(aborted) == ~aborted

-----------------------------------------------------------------------------
(* The /api/search handler's locals, per request slot *)

NoTask == [st |-> "none", attempt |-> 0, why |-> "-", kept |-> 0]

NoData ==
    [query |-> Undef, category |-> Undef, results |-> <<>>, count |-> 0,
     engines |-> {}, instance |-> Null]

NoBody == [error |-> Null, data |-> NoData]

IdleReq ==
    [pc |-> "idle",             \* idle | batch | scrape | fallback | done
     query |-> Undef, category |-> "general", safebased |-> FALSE,
     cacheHit |-> FALSE,        \* answered at line 191
     shuffled |-> <<>>,         \* line 208
     i |-> 0,                   \* the batch loop's index
     fb |-> 0,                  \* position in shuffled.slice(0, 8) of the fallback loop
     task |-> [inst \in SEARXNG_INSTANCES |-> NoTask],   \* batchPromises, over all batches
     results |-> <<>>, enginesUsed |-> {}, instanceUsed |-> Null,
     status |-> 0,              \* HTTP status sent, 0 while unanswered
     body |-> NoBody,
     sent |-> {}]               \* outbound requests issued so far

\* the task fields: st   none | inflight | fulfilled | rejected
\*                  attempt    fetches issued by the task (index in categoriesToTry)
\*                  why        how a task that did not succeed ended:
\*                             error      the last attempt failed (network, status, body)
\*                             empty      the last attempt answered JSON without results
\*                             timeout    aborted by the batch's timer
\*                             cancelled  aborted because a sibling won
\*                  kept       winner only: items left by the category filter
\*                             (-1 when the filter threw)

Pending(rq) == {inst \in SEARXNG_INSTANCES : rq.task[inst].st = "inflight"}

\* Faulty variant: the batches are sliced from the registry, not from the
\* eligible list
BatchAt_FromRegistry(rq, i) ==
    Range(Slice(SelectSeqBy(<<"https://a.test", "https://b.test", "https://c.test">>,
                            scenario.registry, 1), i, i + batchSize))

\* server.ts:219  shuffled.slice(i, i + batchSize)
BatchAt(rq, i) == Range(Slice(rq.shuffled, i, i + batchSize))

\* server.ts:432-442
ResponseData(rq) ==
    [query |-> rq.query, category |-> rq.category, results |-> rq.results,
     count |-> Len(rq.results), engines |-> rq.enginesUsed, instance |-> rq.instanceUsed]

\* Faulty variant: a search without results is answered 200 as well
Respond_EmptyOk(rq) ==
    [rq EXCEPT !.pc = "done", !.status = 200,
               !.body = [error |-> Null, data |-> ResponseData(rq)]]

\* server.ts:428-445  the end of the handler
Respond(rq) ==
    IF Len(rq.results) = 0
    THEN [rq EXCEPT !.pc = "done", !.status = 404,
                    !.body = [error |-> "No results found. Please try a different query.",
                              data |-> NoData]]
    ELSE [rq EXCEPT !.pc = "done", !.status = 200,
                    !.body = [error |-> Null, data |-> ResponseData(rq)]]

\* Faulty variant: the broadened fallback gives up after its first instance
FallbackFrom_GivesUp(rq, k) ==
    IF k = 1 /\ Len(rq.shuffled) >= 1
    THEN [rq EXCEPT !.pc = "fallback", !.fb = k,
                    !.sent = @ \cup {FallbackRequest(rq.shuffled[k], rq.safebased)}]
    ELSE Respond(rq)

\* server.ts:357, 395  the next iteration of the broadened fallback's loop:
\* fetch from shuffled.slice(0, 8)[k], or leave the loop
FallbackFrom(rq, k) ==
    IF k <= Len(Slice(rq.shuffled, 0, fallbackLimit))
    THEN [rq EXCEPT !.pc = "fallback", !.fb = k,
                    !.sent = @ \cup {FallbackRequest(rq.shuffled[k], rq.safebased)}]
    ELSE Respond(rq)

\* server.ts:355, 393  after the scrape fallback
AfterScrape(rq) ==
    IF Len(rq.results) = 0 /\ rq.category \in {"videos", "images"}
    THEN FallbackFrom(rq, 1)
    ELSE Respond(rq)

\* server.ts:291-303  after the batch loop: scrape shuffled[0] when there
\* are no results yet
AfterLoop(rq) ==
    IF Len(rq.results) = 0 /\ Len(rq.shuffled) > 0
    THEN [rq EXCEPT !.pc = "scrape",
                    !.sent = @ \cup {ScrapeRequest(rq.shuffled[1], rq.category, rq.safebased)}]
    ELSE AfterScrape(rq)

\* The batch promises are locals of the loop (server.ts:224): once the
\* handler resumes after the loop, the settled ones are gone
DropSettled(rq) ==
    [rq EXCEPT !.task = [inst \in SEARXNG_INSTANCES |->
                            IF inst \in Pending(rq) THEN rq.task[inst] ELSE NoTask]]

\* server.ts:219-236  one iteration's start: a fresh controller and one
\* fetchFromInstance per instance of the batch, each up to its first fetch
StartBatch(rq, i) ==
    [rq EXCEPT !.pc = "batch", !.i = i,
               !.task = [inst \in SEARXNG_INSTANCES |->
                            IF inst \in BatchAt(rq, i)
                            THEN [NoTask EXCEPT !.st = "inflight", !.attempt = 1]
                            ELSE rq.task[inst]],
               !.sent = @ \cup {JsonRequest(inst, rq.category, rq.safebased, 1) :
                                   inst \in BatchAt(rq, i)}]

\* Faulty variant: the loop runs over the whole eligible list
LoopContinues_NoCap(rq, i) == i < Len(rq.shuffled)

\* server.ts:218  the loop condition
LoopContinues(rq, i) == i < Len(rq.shuffled) /\ i < maxTotalInstances

\* server.ts:218, 283-288  the iteration ended without break: i += batchSize
NextIteration(rq) ==
    IF LoopContinues(rq, rq.i + batchSize)
    THEN StartBatch(rq, rq.i + batchSize)
    ELSE AfterLoop(rq)

\* Faulty variant: the results are taken but the loop is not left
OnFiltered_NoBreak(rq, filtered) ==
    IF Len(filtered) > 0
    THEN NextIteration([rq EXCEPT !.results = MapWinner(filtered, rq.category),
                                  !.enginesUsed = EnginesOf(filtered)])
    ELSE NextIteration(rq)

\* server.ts:260-281  if (filtered.length > 0) { results = ...; break; }
OnFiltered(rq, filtered) ==
    IF Len(filtered) > 0
    THEN AfterLoop([rq EXCEPT !.results = MapWinner(filtered, rq.category),
                              !.enginesUsed = EnginesOf(filtered)])
    ELSE NextIteration(rq)

\* Faulty variant: the exception escapes the handler
OnFilterThrow_Fatal(rq) == [rq EXCEPT !.pc = "done", !.status = 500]

\* server.ts:283-285  an exception of the winner's filter or map lands in
\* the catch of the batch's try
OnFilterThrow(rq) == NextIteration(rq)

\* Faulty variant: the race rejects with the first rejection
BatchSettled_Any(rq) ==
    /\ rq.pc = "batch"
    /\ \E inst \in BatchAt(rq, rq.i) : rq.task[inst].st = "rejected"

\* Faulty variant: the race never rejects
BatchSettled_Never(rq) == FALSE

\* server.ts:239  Promise.any rejects once every promise of the batch has
\* rejected
BatchSettled(rq) ==
    /\ rq.pc = "batch"
    /\ \A inst \in BatchAt(rq, rq.i) : rq.task[inst].st = "rejected"

\* Faulty variant: the controller's abort reaches no fetch
AbortBatch_Noop(rq, why) == rq

\* server.ts:84-114 after controller.abort() (lines 221, 241): every task
\* still waiting has its fetch rejected, goes through its remaining
\* categories (each fetch rejecting at once, nothing sent) and throws.  These
\* are promise reactions: they run before the next timer or I/O event.
AbortBatch(rq, why) ==
    LET n == Len(CategoriesToTry(rq.category))
        resent == {x \in Pending(rq) : rq.task[x].attempt < n /\ FetchIssued(TRUE)}
    IN [rq EXCEPT
          !.task = [x \in SEARXNG_INSTANCES |->
              IF x \in resent
              THEN [rq.task[x] EXCEPT !.attempt = rq.task[x].attempt + 1]
              ELSE IF x \in Pending(rq)
              THEN [rq.task[x] EXCEPT !.st = "rejected", !.why = why]
              ELSE rq.task[x]],
          !.sent = @ \cup {JsonRequest(x, rq.category, rq.safebased, rq.task[x].attempt + 1) :
                              x \in resent}]

\* Faulty variant: the first winner's instance is kept when a later one wins
OnWinner_KeepsFirst(rq, inst, results) ==
    LET f == FilterWinner(rq.category, results)
        rq1 == [rq EXCEPT !.instanceUsed = IF @ = Null THEN inst ELSE @,
                          !.task[inst].st = "fulfilled",
                          !.task[inst].kept = IF f.threw THEN -1 ELSE Len(f.items)]
        rq2 == AbortBatch(rq1, "cancelled")
    IN IF f.threw THEN OnFilterThrow(rq2) ELSE OnFiltered(rq2, f.items)

\* Faulty variant: the winner's instance is not noted
OnWinner_NoInstance(rq, inst, results) ==
    LET f == FilterWinner(rq.category, results)
        rq1 == [rq EXCEPT !.task[inst].st = "fulfilled",
                          !.task[inst].kept = IF f.threw THEN -1 ELSE Len(f.items)]
        rq2 == AbortBatch(rq1, "cancelled")
    IN IF f.threw THEN OnFilterThrow(rq2) ELSE OnFiltered(rq2, f.items)

\* server.ts:239-282  Promise.any resolved with inst's answer: abort the
\* batch's controller, filter, map
OnWinner(rq, inst, results) ==
    LET f == FilterWinner(rq.category, results)
        rq1 == [rq EXCEPT !.instanceUsed = inst,
                          !.task[inst].st = "fulfilled",
                          !.task[inst].kept = IF f.threw THEN -1 ELSE Len(f.items)]
        rq2 == AbortBatch(rq1, "cancelled")
    IN IF f.threw THEN OnFilterThrow(rq2) ELSE OnFiltered(rq2, f.items)

\* server.ts:110-114, 239, 283-288  inst's task ends rejected; the handler
\* goes on when that settles the batch it is waiting for
OnRejected(rq, inst, why) ==
    LET rq1 == [rq EXCEPT !.task[inst].st = "rejected", !.task[inst].why = why] IN
    IF BatchSettled(rq1) THEN NextIteration(rq1) ELSE rq1

\* server.ts:221, 239, 283-288  the timer aborts the batch; Promise.any
\* rejects when that leaves every task rejected
OnTimeout(rq) ==
    LET rq1 == AbortBatch(rq, "timeout") IN
    IF BatchSettled(rq1) THEN NextIteration(rq1) ELSE rq1

\* server.ts:230-235  the instances whose task's .catch ran during a step
NewlyRejected(before, after) ==
    {inst \in SEARXNG_INSTANCES :
        before.task[inst].st # "rejected" /\ after.task[inst].st = "rejected"}

\* Faulty variant: an existing entry is not overwritten
Stored_FirstWriter(cache, rq, t) ==
    IF rq.pc = "done" /\ rq.status = 200 /\ ~rq.cacheHit
    THEN LET key == CacheKey(rq.query, rq.category, rq.safebased) IN
         [k \in DOMAIN cache \cup {key} |->
             IF k \in DOMAIN cache THEN cache[k]
             ELSE [data |-> rq.body.data, timestamp |-> t]]
    ELSE cache

\* Faulty variant: every answer of a search is stored
Stored_AnyAnswer(cache, rq, t) ==
    IF rq.pc = "done" /\ rq.status # 400 /\ ~rq.cacheHit
    THEN LET key == CacheKey(rq.query, rq.category, rq.safebased) IN
         [k \in DOMAIN cache \cup {key} |->
             IF k = key THEN [data |-> rq.body.data, timestamp |-> t] ELSE cache[k]]
    ELSE cache

\* server.ts:444  searchCache.set, by the request that has just answered 200
\* from a search of its own
Stored(cache, rq, t) ==
    IF rq.pc = "done" /\ rq.status = 200 /\ ~rq.cacheHit
    THEN LET key == CacheKey(rq.query, rq.category, rq.safebased) IN
         [k \in DOMAIN cache \cup {key} |->
             IF k = key THEN [data |-> rq.body.data, timestamp |-> t] ELSE cache[k]]
    ELSE cache

-----------------------------------------------------------------------------
(* The batched handler of unnamed/part_001 (onRequest): no cache, no health *)
(* map; each batch task tries the JSON API and, when that throws, scrapes   *)
(* the same instance; the handler awaits Promise.all of the batch.          *)

\* part_001:112, 113  BATCH_SIZE = 5, MAX_BATCHES = 8 in the source (scaled)
BATCH_SIZE == 2
MAX_BATCHES == 2

\* part_001:151  the images predicate
WorkerKeepImage(r) == Truthy(r.img_src) \/ Truthy(r.thumbnail) \/ r.template = "image"

\* part_001:153  r.url.includes(...) throws for an item without url unless
\* the template disjunct already holds
WorkerVideoThrows(r) == r.template # "video" /\ r.url = Undef

\* part_001:153  the videos predicate
WorkerKeepVideo(r) ==
    \/ r.template = "video"
    \/ /\ r.url # Undef
       /\ \/ Includes(r.url, "youtube.com") \/ Includes(r.url, "vimeo.com")
          \/ Includes(r.url, "dailymotion.com")

\* part_001:149-154  filtered; threw when the predicate raised
WorkerFilter(category, results) ==
    IF category = "images"
    THEN [threw |-> FALSE,
          items |-> SelectSeqBy(results, {r \in Range(results) : WorkerKeepImage(r)}, 1)]
    ELSE IF category = "videos"
    THEN IF \E r \in Range(results) : WorkerVideoThrows(r)
         THEN [threw |-> TRUE, items |-> <<>>]
         ELSE [threw |-> FALSE,
               items |-> SelectSeqBy(results, {r \in Range(results) : WorkerKeepVideo(r)}, 1)]
    ELSE [threw |-> FALSE, items |-> results]

\* part_001:159-171  one SearchResult of a JSON answer; new URL is not guarded
WorkerMapItem(r, category) ==
    LET domain == Hostname(OrElse(r.url, "http://localhost")) IN
    [type |-> OrElse(r.category, category),
     title |-> OrElse(r.title, "No Title"),
     url |-> OrElse(r.url, "#"),
     snippet |-> OrElse(r.content, OrElse(r.snippet, "")),
     thumbnail |-> OrElse(r.img_src, OrElse(r.thumbnail, Null)),
     favicon |-> Favicon(domain),
     domain |-> domain,
     engine |-> r.engine]

\* part_001:136-176, 240  what the try block of a batch task comes to once its
\* JSON fetch has settled: kind is "value" (the task returns its results),
\* "null" (it falls through to return null) or "catch" (something threw)
WorkerJson(outcome, category) ==
    IF outcome.kind \in {"neterr", "nonjson"} THEN [kind |-> "catch", results |-> <<>>]
    ELSE IF ~Usable(outcome) THEN [kind |-> "null", results |-> <<>>]
    ELSE LET f == WorkerFilter(category, outcome.results)
             mapped == [k \in 1..Len(f.items) |-> WorkerMapItem(f.items[k], category)]
         IN IF f.threw THEN [kind |-> "catch", results |-> <<>>]
            ELSE IF Len(f.items) = 0 THEN [kind |-> "null", results |-> <<>>]
            ELSE IF \E k \in 1..Len(mapped) : mapped[k].domain = Threw
            THEN [kind |-> "catch", results |-> <<>>]
            ELSE [kind |-> "value", results |-> mapped]

\* part_001:209-231  the SearchResult pushed for one element
WorkerScrapedItem(el, inst, category) ==
    LET url == ScrapedUrl(el, inst)
        domain == DomainOf(url)
    IN [type |-> category,
        title |-> OrElse(OrElse(el.linkText, el.titleText), "No Title"),
        url |-> url,
        snippet |-> OrElse(el.snippet, ""),
        thumbnail |-> ScrapedThumbnail(el, inst),
        favicon |-> Favicon(domain),
        domain |-> domain,
        engine |-> Undef]

\* part_001:204-232  the .each loop: every element with a link is pushed
WorkerScrape(page, inst, category) ==
    LET linked == SelectSeqBy(page, {el \in Range(page) : el.link}, 1)
    IN [k \in 1..Len(linked) |-> WorkerScrapedItem(linked[k], inst, category)]

\* part_001:177-240  what the catch block comes to once the HTML fetch has
\* settled
WorkerHtml(outcome, inst, category) ==
    LET scraped == WorkerScrape(outcome.page, inst, category) IN
    IF outcome.kind = "html" /\ Len(scraped) > 0
    THEN [kind |-> "value", results |-> scraped]
    ELSE [kind |-> "null", results |-> <<>>]

\* a batch task: st is none | json (awaiting the JSON fetch) | html (awaiting
\* the HTML fetch) | value | null (settled with that)
WorkerNoTask == [st |-> "none", results |-> <<>>]

IdleWorker ==
    [pc |-> "idle",             \* idle | batch | done
     query |-> Undef, category |-> "general", safebased |-> FALSE,
     shuffled |-> <<>>,         \* part_001:109
     i |-> 0,                   \* the batch loop's index
     task |-> [inst \in SEARXNG_INSTANCES |-> WorkerNoTask],  \* batchPromises
     order |-> <<>>,            \* the tasks of the batch that returned results,
                                \* in the order they settled
     results |-> <<>>, instanceUsed |-> Null,
     status |-> 0,              \* HTTP status sent, 0 while unanswered
     instance |-> Null]         \* aggregations.instance of the answer

\* part_001:127  batch
WorkerBatchAt(w, i) == Slice(w.shuffled, i * BATCH_SIZE, (i + 1) * BATCH_SIZE)

\* part_001:254-273  the end of the handler
WorkerRespond(w) ==
    IF Len(w.results) = 0
    THEN [w EXCEPT !.pc = "done", !.status = 404]
    ELSE [w EXCEPT !.pc = "done", !.status = 200,
                   !.instance = IF w.instanceUsed # Null
                                THEN HostOfInstance(w.instanceUsed) ELSE Null]

\* part_001:126-139  iteration i of the batch loop up to its await: every
\* task of the batch issues its JSON fetch
WorkerStartBatch(w, i) ==
    IF i < MAX_BATCHES /\ Len(WorkerBatchAt(w, i)) > 0
    THEN [w EXCEPT !.pc = "batch", !.i = i, !.order = <<>>,
                   !.task = [inst \in SEARXNG_INSTANCES |->
                                IF inst \in Range(WorkerBatchAt(w, i))
                                THEN [st |-> "json", results |-> <<>>]
                                ELSE WorkerNoTask]]
    ELSE WorkerRespond(w)

\* part_001:243  Promise.all(batchPromises) has resolved
WorkerAllSettled(w) ==
    \A inst \in Range(WorkerBatchAt(w, w.i)) : w.task[inst].st \in {"value", "null"}

\* part_001:244-251  batchResults.find(r => r !== null), in the order of the
\* batch; then break, or the next iteration
WorkerAfterBatch(w) ==
    LET batch == WorkerBatchAt(w, w.i)
        hits == {k \in 1..Len(batch) : w.task[batch[k]].st = "value"}
    IN IF hits # {}
       THEN LET successful == batch[CHOOSE k \in hits : \A j \in hits : k <= j]
            IN WorkerRespond([w EXCEPT !.results = w.task[successful].results,
                                       !.instanceUsed = successful])
       ELSE WorkerStartBatch(w, w.i + 1)

\* a task of the batch has settled with how; the handler resumes only when
\* every task of the batch has
WorkerSettle(w, inst, how) ==
    LET w1 == [w EXCEPT !.task[inst] = [st |-> how.kind, results |-> how.results],
                        !.order = IF how.kind = "value" THEN Append(@, inst) ELSE @]
    IN IF WorkerAllSettled(w1) THEN WorkerAfterBatch(w1) ELSE w1

-----------------------------------------------------------------------------
(* The client of src/App.tsx: the state of the App component that searching *)
(* touches, and the /api/search requests it has in flight.  A request in    *)
(* flight is a record                                                       *)
(*   q, category, safe   what fetchCategory put in the URL                  *)
(*   aborted             its AbortSignal has been aborted                   *)
(*   stale               (history) a later search has started since         *)
(* and the requests in flight form a bag.  fetchSummary and the suggestion  *)
(* box touch none of the state below and are left out.                      *)

Category == {"general", "images", "videos"}

\* the trimmed text of the input box
QueryInputs == {"", "cats", "dogs"}

\* how a request that was not aborted ends: a 200 with results, a non-2xx
\* JSON body with an error, or a body that is not JSON
FetchOutcomes == {"ok", "notok", "invalid"}

\* the requests fetchCategory can have in flight
Fetches ==
    [q : QueryInputs \ {""}, category : Category, safe : BOOLEAN,
     aborted : BOOLEAN, stale : BOOLEAN]

IdleClient ==
    [query |-> "",
     resultsMap |-> [c \in Category |-> <<>>],
     aggregationsMap |-> [c \in Category |-> Null],
     loadingMap |-> [c \in Category |-> FALSE],
     errorMap |-> [c \in Category |-> Null],
     hasSearched |-> FALSE,
     activeTab |-> "general",
     safeSearch |-> TRUE,
     lastSearch |-> [query |-> "", safe |-> TRUE],
     abortControllerRef |-> Null,
     fetches |-> EmptyBag,
     \* history: per category, whose request last wrote one of the three
     \* maps since the last search started; and whether an aborted request's
     \* continuation has run since then
     wrote |-> [c \in Category |-> "none"],
     discarded |-> FALSE]

\* the body the server gives for a request: results and aggregations of
\* that query, category and safe flag
DataOf(f) ==
    [results |-> <<[title |-> f.q, category |-> f.category, safe |-> f.safe]>>,
     aggregations |-> f.q \o "/" \o f.category]

\* Faulty variant: the controller's abort reaches no fetch
abort_Noop(fetches) == fetches

\* AbortController.abort(): every fetch holding the signal is aborted
abort(fetches) == BagOfAll(LAMBDA f : [f EXCEPT !.aborted = TRUE], fetches)

\* (history) the requests in flight now belong to an earlier search
Outdate(fetches) == BagOfAll(LAMBDA f : [f EXCEPT !.stale = TRUE], fetches)

\* fetchCategory up to its first await
fetchCategory(cl, q, category) ==
    [cl EXCEPT !.loadingMap[category] = TRUE,
               !.errorMap[category] = Null,
               !.fetches = @ (+) SetToBag({[q |-> q, category |-> category,
                                            safe |-> cl.safeSearch,
                                            aborted |-> FALSE, stale |-> FALSE]})]

handleSearch(cl, categoryOverride) ==
    LET targetQuery == cl.query
        isNewSearch == \/ targetQuery # cl.lastSearch.query
                       \/ cl.safeSearch # cl.lastSearch.safe
    IN IF targetQuery = "" THEN cl
       ELSE IF /\ categoryOverride # Undef
               /\ cl.resultsMap[categoryOverride] # <<>>
               /\ ~isNewSearch
       THEN [cl EXCEPT !.activeTab = categoryOverride]
       ELSE IF isNewSearch
       THEN LET c0 == [cl EXCEPT !.fetches = Outdate(abort(@)),
                                 !.abortControllerRef = "controller",
                                 !.hasSearched = TRUE,
                                 !.resultsMap = [c \in Category |-> <<>>],
                                 !.aggregationsMap = [c \in Category |-> Null],
                                 !.errorMap = [c \in Category |-> Null],
                                 !.lastSearch = [query |-> targetQuery,
                                                 safe |-> cl.safeSearch],
                                 !.wrote = [c \in Category |-> "none"],
                                 !.discarded = FALSE]
            IN fetchCategory(fetchCategory(fetchCategory(c0,
                   targetQuery, "general"), targetQuery, "images"),
                   targetQuery, "videos")
       ELSE IF categoryOverride # Undef
       THEN fetchCategory([cl EXCEPT !.hasSearched = TRUE],
                          targetQuery, categoryOverride)
       ELSE [cl EXCEPT !.hasSearched = TRUE]

handleTabChange(cl, tab) ==
    IF tab = cl.activeTab THEN cl
    ELSE LET c1 == [cl EXCEPT !.activeTab = tab]
         IN IF /\ cl.hasSearched
               /\ cl.resultsMap[tab] = <<>>
               /\ ~cl.loadingMap[tab]
            THEN handleSearch(c1, tab)
            ELSE c1

\* the rest of fetchCategory for request f once fetch / response.text()
\* has settled without an abort
fetchSettles(cl, f, outcome) ==
    LET c == f.category
        who == IF f.stale THEN "earlier" ELSE "current"
        c1 == [cl EXCEPT !.fetches = @ (-) SetToBag({f}),
                         !.loadingMap[c] = FALSE,
                         !.wrote[c] = who]
    IN CASE outcome = "ok" ->
              [c1 EXCEPT !.resultsMap[c] = DataOf(f).results,
                         !.aggregationsMap[c] = DataOf(f).aggregations]
         [] outcome = "notok" ->
              [c1 EXCEPT !.errorMap[c] = "No results found"]
         [] OTHER ->
              [c1 EXCEPT !.errorMap[c] = "Server returned invalid response"]

\* the rest of fetchCategory for request f once its fetch has rejected
\* with an AbortError: the catch returns, the finally runs
fetchAborted(cl, f) ==
    [cl EXCEPT !.fetches = @ (-) SetToBag({f}),
               !.loadingMap[f.category] = FALSE,
               !.discarded = TRUE]

\* the rejections of aborted fetches are microtasks: they run before the
\* next event or response is handled
MicrotasksPending(cl) == \E f \in BagToSet(cl.fetches) : f.aborted

-----------------------------------------------------------------------------
(* Initial state: a running process.  The cache is empty; the health map   *)
(* is one the process can have reached at time 0.                          *)

Failed(n) == [failures |-> n, lastFailure |-> 0]

\* a fresh process; one instance a failure short of the threshold and one
\* at it; every instance at the threshold
InitHealths ==
    { <<>>,
      [inst \in {"https://a.test", "https://b.test"} |->
          IF inst = "https://a.test" THEN Failed(FAILURE_THRESHOLD - 1)
                                      ELSE Failed(FAILURE_THRESHOLD)],
      [inst \in SEARXNG_INSTANCES |-> Failed(FAILURE_THRESHOLD)] }

\* a fresh process; the only instance a failure short of the threshold
InitHealthsCache ==
    { <<>>, [inst \in {"https://a.test"} |-> Failed(FAILURE_THRESHOLD - 1)] }

InitWith(sc, healths) ==
    /\ now = 0
    /\ ticks = 0
    /\ searchCache = <<>>
    /\ instanceHealth \in healths
    /\ req = [r \in Requests |-> IdleReq]
    /\ sc.steps \subseteq TickSteps
    /\ scenario = sc
    /\ worker = IdleWorker
    /\ client = IdleClient

\* One request, any parameters, against the whole registry
Init ==
    InitWith([maxTotalInstances |-> 4,
              registry |-> SEARXNG_INSTANCES, requests |-> {1},
              queries |-> QueryParams, categories |-> CategoryParams,
              safes |-> {Undef, "false"},
              steps |-> {COOLDOWN_PERIOD, COOLDOWN_PERIOD + 1}], InitHealths)

-----------------------------------------------------------------------------
(* Actions *)

\* Date.now() advances
Tick(d) ==
    /\ ticks < MaxTicks
    /\ now' = now + d
    /\ ticks' = ticks + 1
    /\ UNCHANGED <<searchCache, instanceHealth, req, scenario, worker, client>>

\* Faulty variant: the eligibility filter runs before the cache lookup
StartRequest_FilterFirst(r, q, c, s) ==
    /\ req[r].pc = "idle"
    /\ \A earlier \in scenario.requests : earlier < r => req[earlier].pc # "idle"
    /\ UNCHANGED <<now, ticks, scenario, worker, client>>
    /\ LET rq0 == [IdleReq EXCEPT !.query = q, !.category = CategoryOf(c),
                                  !.safebased = SafeOf(s)]
       IN IF QueryMissing(q)
          THEN /\ req' = [req EXCEPT ![r] =
                            [rq0 EXCEPT !.pc = "done", !.status = 400,
                                        !.body = [error |-> "Query is required",
                                                  data |-> NoData]]]
               /\ UNCHANGED <<searchCache, instanceHealth>>
          ELSE LET key == CacheKey(rq0.query, rq0.category, rq0.safebased) IN
               IF CacheHit(searchCache, key, now)
               THEN /\ req' = [req EXCEPT ![r] =
                                 [rq0 EXCEPT !.pc = "done", !.status = 200,
                                             !.cacheHit = TRUE,
                                             !.body = [error |-> Null,
                                                       data |-> searchCache[key].data]]]
                    /\ instanceHealth' = HealthAfterFilter(instanceHealth, now)
                    /\ UNCHANGED searchCache
               ELSE \E shuffled \in Perms({inst \in scenario.registry :
                                              IsHealthy(instanceHealth, inst, now)}) :
                      LET rq1 == [rq0 EXCEPT !.shuffled = shuffled]
                          rq2 == IF LoopContinues(rq1, 0)
                                 THEN StartBatch(rq1, 0)
                                 ELSE AfterLoop(rq1)
                      IN /\ req' = [req EXCEPT ![r] = rq2]
                         /\ instanceHealth' = HealthAfterFilter(instanceHealth, now)
                         /\ searchCache' = Stored(searchCache, req'[r], now)

\* server.ts:178-236  GET /api/search arrives; the handler runs to its first
\* await (or to its answer)
StartRequest(r, q, c, s) ==
    /\ req[r].pc = "idle"
    /\ \A earlier \in scenario.requests : earlier < r => req[earlier].pc # "idle"
    /\ UNCHANGED <<now, ticks, scenario, worker, client>>
    /\ LET rq0 == [IdleReq EXCEPT !.query = q, !.category = CategoryOf(c),
                                  !.safebased = SafeOf(s)]
       IN IF QueryMissing(q)
          THEN /\ req' = [req EXCEPT ![r] =
                            [rq0 EXCEPT !.pc = "done", !.status = 400,
                                        !.body = [error |-> "Query is required",
                                                  data |-> NoData]]]
               /\ UNCHANGED <<searchCache, instanceHealth>>
          ELSE LET key == CacheKey(rq0.query, rq0.category, rq0.safebased) IN
               IF CacheHit(searchCache, key, now)
               THEN /\ req' = [req EXCEPT ![r] =
                                 [rq0 EXCEPT !.pc = "done", !.status = 200,
                                             !.cacheHit = TRUE,
                                             !.body = [error |-> Null,
                                                       data |-> searchCache[key].data]]]
                    /\ UNCHANGED <<searchCache, instanceHealth>>
               ELSE \E shuffled \in Perms({inst \in scenario.registry :
                                              IsHealthy(instanceHealth, inst, now)}) :
                      LET rq1 == [rq0 EXCEPT !.shuffled = shuffled]
                          rq2 == IF LoopContinues(rq1, 0)
                                 THEN StartBatch(rq1, 0)
                                 ELSE AfterLoop(rq1)
                      IN /\ req' = [req EXCEPT ![r] = rq2]
                         /\ instanceHealth' = HealthAfterFilter(instanceHealth, now)
                         /\ searchCache' = Stored(searchCache, req'[r], now)

\* server.ts:96-114, 224-288  the fetch a batch task is waiting for settles
\* with outcome (the answer read by response.json(), or a failure)
TaskRespond(r, inst, outcome) ==
    /\ req[r].task[inst].st = "inflight"
    /\ UNCHANGED <<now, ticks, scenario, worker, client>>
    /\ LET rq == req[r]
           tk == rq.task[inst]
           rq1 == IF Usable(outcome)
                  THEN OnWinner(rq, inst, outcome.results)
                  ELSE IF tk.attempt < Len(CategoriesToTry(rq.category)) /\ FetchIssued(FALSE)
                  THEN [rq EXCEPT !.task[inst].attempt = tk.attempt + 1,
                                  !.sent = @ \cup {JsonRequest(inst, rq.category,
                                                      rq.safebased, tk.attempt + 1)}]
                  ELSE OnRejected(rq, inst, IF outcome.kind = "json" THEN "empty" ELSE "error")
       IN /\ req' = [req EXCEPT ![r] = rq1]
          /\ instanceHealth' = RecordAll(instanceHealth, NewlyRejected(rq, req'[r]), now)
          /\ searchCache' = Stored(searchCache, req'[r], now)

\* server.ts:221  the batch's timer fires: controller.abort()
BatchTimeout(r) ==
    /\ req[r].pc = "batch"
    /\ Pending(req[r]) # {}
    /\ UNCHANGED <<now, ticks, scenario, worker, client>>
    /\ req' = [req EXCEPT ![r] = OnTimeout(req[r])]
    /\ instanceHealth' = RecordAll(instanceHealth, NewlyRejected(req[r], req'[r]), now)
    /\ searchCache' = Stored(searchCache, req'[r], now)

\* server.ts:297-353  the scrape request settles
ScrapeRespond(r, outcome) ==
    /\ req[r].pc = "scrape"
    /\ UNCHANGED <<now, ticks, instanceHealth, scenario, worker, client>>
    /\ LET rq == DropSettled(req[r])
           inst == rq.shuffled[1]
           scraped == Scrape(outcome.page, inst, rq.category)
           rq1 == IF outcome.kind # "html" THEN rq
                  ELSE IF Len(scraped) > 0
                  THEN [rq EXCEPT !.instanceUsed = inst, !.results = scraped]
                  ELSE [rq EXCEPT !.instanceUsed = inst]
           rq2 == AfterScrape(rq1)
       IN /\ req' = [req EXCEPT ![r] = rq2]
          /\ searchCache' = Stored(searchCache, req'[r], now)

\* server.ts:361-389, 399-424  the broadened fallback's current request settles
FallbackRespond(r, outcome) ==
    /\ req[r].pc = "fallback"
    /\ UNCHANGED <<now, ticks, instanceHealth, scenario, worker, client>>
    /\ LET rq == req[r]
           inst == rq.shuffled[rq.fb]
           x == ExtractFallback(outcome, rq.category)
           rq1 == IF ~x.threw /\ Len(x.items) > 0
                  THEN Respond([rq EXCEPT !.results = x.items, !.instanceUsed = inst])
                  ELSE FallbackFrom(rq, rq.fb + 1)
       IN /\ req' = [req EXCEPT ![r] = rq1]
          /\ searchCache' = Stored(searchCache, req'[r], now)

Next ==
    \/ \E d \in scenario.steps : Tick(d)
    \/ \E r \in scenario.requests, q \in scenario.queries,
          c \in scenario.categories, s \in scenario.safes :
          StartRequest(r, q, c, s)
    \/ \E r \in scenario.requests, inst \in SEARXNG_INSTANCES, outcome \in JsonOutcomes :
          TaskRespond(r, inst, outcome)
    \/ \E r \in scenario.requests : BatchTimeout(r)
    \/ \E r \in scenario.requests, outcome \in ScrapeOutcomes : ScrapeRespond(r, outcome)
    \/ \E r \in scenario.requests, outcome \in JsonOutcomes : FallbackRespond(r, outcome)

Spec == Init /\ [][Next]_vars

\* Two requests, possibly overlapping, against a registry of one instance
InitCache ==
    InitWith([maxTotalInstances |-> 4,
              registry |-> {"https://a.test"}, requests |-> {1, 2},
              queries |-> QueryParams, categories |-> {Undef, "images"},
              safes |-> {"true"},
              steps |-> {COOLDOWN_PERIOD + 1, CACHE_TTL}], InitHealthsCache)

SpecCache == InitCache /\ [][Next]_vars

\* Every outbound request of a search settles: the batch fetches answer or
\* are aborted by the batch timer (server.ts:221), the scrape and fallback
\* fetches answer or run into their AbortSignal.timeout (server.ts:302, 363, 401)
Settle(r) ==
    \/ \E inst \in SEARXNG_INSTANCES, outcome \in JsonOutcomes : TaskRespond(r, inst, outcome)
    \/ BatchTimeout(r)
    \/ \E outcome \in ScrapeOutcomes : ScrapeRespond(r, outcome)
    \/ \E outcome \in JsonOutcomes : FallbackRespond(r, outcome)

\* One request against the whole registry, fresh or with every instance at
\* the threshold
InitFair ==
    InitWith([maxTotalInstances |-> 4,
              registry |-> SEARXNG_INSTANCES, requests |-> {1},
              queries |-> QueryParams, categories |-> CategoryParams,
              safes |-> {"true"}, steps |-> {COOLDOWN_PERIOD + 1}],
             {h \in InitHealths : DOMAIN h \in {{}, SEARXNG_INSTANCES}})

\* One request with a cold cache against a registry of two instances, both
\* without a health record
InitPair ==
    InitWith([maxTotalInstances |-> 4,
              registry |-> {"https://a.test", "https://b.test"}, requests |-> {1},
              queries |-> {"cats"}, categories |-> {Undef, "general", "images"},
              safes |-> {Undef, "false"}, steps |-> {COOLDOWN_PERIOD}], {<<>>})

SpecPair == InitPair /\ [][Next]_vars

\* Two requests against one instance, with queries and categories that
\* contain the separator of the cache key
InitKeys ==
    InitWith([maxTotalInstances |-> 4,
              registry |-> {"https://a.test"}, requests |-> {1, 2},
              queries |-> {"cats", "cats:images"},
              categories |-> {Undef, "images", "images:general"},
              safes |-> {Undef}, steps |-> {COOLDOWN_PERIOD + 1}], {<<>>})

SpecKeys == InitKeys /\ [][Next]_vars

\* Two requests for one query against one instance, with every value of the
\* safe parameter
InitSafe ==
    InitWith([maxTotalInstances |-> 4,
              registry |-> {"https://a.test"}, requests |-> {1, 2},
              queries |-> {"cats"}, categories |-> {Undef, "images"},
              safes |-> SafeParams, steps |-> {COOLDOWN_PERIOD + 1}], {<<>>})

SpecSafe == InitSafe /\ [][Next]_vars

\* One request with a cold cache against the whole registry, which has more
\* instances than maxTotalInstances
InitBudget ==
    InitWith([maxTotalInstances |-> 2,
              registry |-> SEARXNG_INSTANCES, requests |-> {1},
              queries |-> {"cats"}, categories |-> CategoryParams,
              safes |-> {Undef}, steps |-> {COOLDOWN_PERIOD}], {<<>>})

SpecBudget == InitBudget /\ [][Next]_vars

FairSpec == InitFair /\ [][Next]_vars /\ \A r \in Requests : WF_vars(Settle(r))

-----------------------------------------------------------------------------
(* unnamed/part_001: one run of onRequest against the whole registry *)

\* part_001:94-143  the request arrives; the handler runs to its first await
\* (or to its 400)
onRequest(q, c, s) ==
    /\ worker.pc = "idle"
    /\ UNCHANGED <<now, ticks, searchCache, instanceHealth, req, scenario, client>>
    /\ LET w0 == [IdleWorker EXCEPT !.query = q, !.category = CategoryOf(c),
                                    !.safebased = SafeOf(s)]
       IN IF QueryMissing(q)
          THEN worker' = [w0 EXCEPT !.pc = "done", !.status = 400]
          ELSE \E shuffled \in Perms(scenario.registry) :
                  worker' = WorkerStartBatch([w0 EXCEPT !.shuffled = shuffled], 0)

\* part_001:136-177  the JSON fetch of inst's task settles with outcome
WorkerJsonRespond(inst, outcome) ==
    /\ worker.pc = "batch"
    /\ worker.task[inst].st = "json"
    /\ UNCHANGED <<now, ticks, searchCache, instanceHealth, req, scenario, client>>
    /\ LET how == WorkerJson(outcome, worker.category) IN
       IF how.kind = "catch"
       THEN worker' = [worker EXCEPT !.task[inst].st = "html"]
       ELSE worker' = WorkerSettle(worker, inst, how)

\* part_001:178-240  the HTML fetch of inst's task settles with outcome
WorkerHtmlRespond(inst, outcome) ==
    /\ worker.pc = "batch"
    /\ worker.task[inst].st = "html"
    /\ UNCHANGED <<now, ticks, searchCache, instanceHealth, req, scenario, client>>
    /\ worker' = WorkerSettle(worker, inst, WorkerHtml(outcome, inst, worker.category))

NextWorker ==
    \/ \E q \in scenario.queries, c \in scenario.categories, s \in scenario.safes :
          onRequest(q, c, s)
    \/ \E inst \in SEARXNG_INSTANCES, outcome \in JsonOutcomes :
          WorkerJsonRespond(inst, outcome)
    \/ \E inst \in SEARXNG_INSTANCES, outcome \in ScrapeOutcomes :
          WorkerHtmlRespond(inst, outcome)

InitWorker ==
    InitWith([maxTotalInstances |-> 4,
              registry |-> SEARXNG_INSTANCES, requests |-> {},
              queries |-> QueryParams, categories |-> CategoryParams,
              safes |-> {Undef, "true"}, steps |-> {}], {<<>>})

SpecWorker == InitWorker /\ [][NextWorker]_vars

-----------------------------------------------------------------------------
(* src/App.tsx: the user's events on the search page and the settling of   *)
(* the requests in flight *)

setQuery(q) ==
    /\ ~MicrotasksPending(client)
    /\ q # client.query
    /\ client' = [client EXCEPT !.query = q]
    /\ UNCHANGED <<now, ticks, searchCache, instanceHealth, req, scenario, worker>>

setSafeSearch ==
    /\ ~MicrotasksPending(client)
    /\ client' = [client EXCEPT !.safeSearch = ~client.safeSearch]
    /\ UNCHANGED <<now, ticks, searchCache, instanceHealth, req, scenario, worker>>

\* the form is submitted
Submit ==
    /\ ~MicrotasksPending(client)
    /\ client' = handleSearch(client, Undef)
    /\ UNCHANGED <<now, ticks, searchCache, instanceHealth, req, scenario, worker>>

\* a tab button is clicked
TabClick(tab) ==
    /\ ~MicrotasksPending(client)
    /\ client.hasSearched
    /\ client' = handleTabChange(client, tab)
    /\ UNCHANGED <<now, ticks, searchCache, instanceHealth, req, scenario, worker>>

\* "Try Again" of the active tab's error panel is clicked
TryAgain(cat) ==
    /\ ~MicrotasksPending(client)
    /\ client.activeTab = cat
    /\ client.errorMap[cat] # Null
    /\ ~client.loadingMap[cat]
    /\ client.resultsMap[cat] = <<>>
    /\ client' = handleSearch(client, cat)
    /\ UNCHANGED <<now, ticks, searchCache, instanceHealth, req, scenario, worker>>

FetchResponds(f, outcome) ==
    /\ ~MicrotasksPending(client)
    /\ BagIn(f, client.fetches)
    /\ client' = fetchSettles(client, f, outcome)
    /\ UNCHANGED <<now, ticks, searchCache, instanceHealth, req, scenario, worker>>

FetchRejectsAborted(f) ==
    /\ BagIn(f, client.fetches)
    /\ f.aborted
    /\ client' = fetchAborted(client, f)
    /\ UNCHANGED <<now, ticks, searchCache, instanceHealth, req, scenario, worker>>

NextClient ==
    \/ \E q \in QueryInputs : setQuery(q)
    \/ setSafeSearch
    \/ Submit
    \/ \E tab \in Category : TabClick(tab)
    \/ \E cat \in Category : TryAgain(cat)
    \/ \E f \in Fetches, outcome \in FetchOutcomes : FetchResponds(f, outcome)
    \/ \E f \in Fetches : FetchRejectsAborted(f)

InitClient ==
    InitWith([maxTotalInstances |-> 4,
              registry |-> SEARXNG_INSTANCES, requests |-> {},
              queries |-> {}, categories |-> {},
              safes |-> {}, steps |-> {}], {<<>>})

SpecClient == InitClient /\ [][NextClient]_vars

-----------------------------------------------------------------------------
(* Properties *)

\* request r has just entered the handler in this step
Arrives(r) == req[r].pc = "idle" /\ req'[r].pc # "idle"

KeyOf(rq) == CacheKey(rq.query, rq.category, rq.safebased)

FailuresOf(h, inst) == IF inst \in DOMAIN h THEN h[inst].failures ELSE 0

\* the batch of rq that inst belongs to (inst is in rq.shuffled)
BatchOf(rq, inst) ==
    BatchAt(rq, ((PositionOf(rq.shuffled, inst) - 1) \div batchSize) * batchSize)

\* C1: a request whose (query, category, safe flag) has a cache entry younger
\* than CACHE_TTL is answered 200 with that entry's data, which is the
\* response data of the search that stored it; the request sends nothing to
\* any instance and leaves the cache and the health records as they were.
C1_CachedAnswer ==
    [][\A r \in Requests :
         (/\ Arrives(r)
          /\ Truthy(req'[r].query)
          /\ KeyOf(req'[r]) \in DOMAIN searchCache
          /\ now - searchCache[KeyOf(req'[r])].timestamp < CACHE_TTL)
         => /\ req'[r].pc = "done"
            /\ req'[r].status = 200
            /\ req'[r].body.data = searchCache[KeyOf(req'[r])].data
            /\ \E p \in Requests \ {r} :
                  /\ req[p].status = 200 /\ ~req[p].cacheHit
                  /\ KeyOf(req[p]) = KeyOf(req'[r])
                  /\ req[p].body.data = req'[r].body.data
            /\ req'[r].sent = {}
            /\ req'[r].shuffled = <<>>
            /\ searchCache' = searchCache
            /\ instanceHealth' = instanceHealth]_vars

\* a request answered from an entry stored by the other one, some time later
C1_Witness ==
    \E r \in Requests, p \in Requests :
        /\ req[r].cacheHit /\ req[r].status = 200
        /\ ~req[p].cacheHit /\ req[p].status = 200
        /\ req[r].body.data = req[p].body.data
        /\ req[r].body.data.count > 0
        /\ now > 0

\* C2: an instance's failure count grows only through a task of its own
\* that failed or ran into the batch timeout, never through a task that was
\* cancelled because a sibling won the race.
C2_CancelledNotCounted ==
    [][\A inst \in SEARXNG_INSTANCES :
         FailuresOf(instanceHealth', inst) > FailuresOf(instanceHealth, inst)
         => \E r \in Requests :
               /\ req[r].task[inst].st = "inflight"
               /\ req'[r].task[inst].st = "rejected"
               /\ req'[r].task[inst].why \in {"error", "empty", "timeout"}]_vars

\* a cancelled task next to the failure recorded for its instance
C2_Witness ==
    \E r \in Requests, x \in SEARXNG_INSTANCES :
        /\ req[r].task[x].st = "rejected" /\ req[r].task[x].why = "cancelled"
        /\ FailuresOf(instanceHealth, x) = 1
        /\ instanceHealth[x].lastFailure = now

\* C3: the task that wins a batch's race has a result set that is not empty
\* after category filtering.
C3_WinnerHasFilteredResults ==
    \A r \in Requests, inst \in SEARXNG_INSTANCES :
        req[r].task[inst].st = "fulfilled" => req[r].task[inst].kept > 0

\* a winner whose answer the category filter emptied, its sibling cancelled
C3_Witness ==
    \E r \in Requests, inst \in SEARXNG_INSTANCES, x \in SEARXNG_INSTANCES :
        /\ req[r].task[inst].st = "fulfilled" /\ req[r].task[inst].kept = 0
        /\ x \in BatchOf(req[r], inst)
        /\ req[r].task[x].why = "cancelled"

\* the search of request r has run the eligibility filter in this step
Filters(r) == Arrives(r) /\ Truthy(req'[r].query) /\ ~req'[r].cacheHit

\* C4: the shuffled candidate list of a search holds exactly the registry's
\* instances that have no health record, or fewer than FAILURE_THRESHOLD
\* failures, or a last failure more than COOLDOWN_PERIOD ago; the filter
\* deletes exactly the records that pass by the third test and leaves the
\* others alone.  So a count below the threshold never excludes, and what is
\* excluded is at or above the threshold and within its cooldown.
C4_EligibilityFilter ==
    [][\A r \in Requests :
         Filters(r) =>
         LET h == instanceHealth
             eligible == {inst \in scenario.registry :
                             \/ inst \notin DOMAIN h
                             \/ h[inst].failures < FAILURE_THRESHOLD
                             \/ now - h[inst].lastFailure > COOLDOWN_PERIOD}
             expired == {inst \in DOMAIN h :
                             /\ h[inst].failures >= FAILURE_THRESHOLD
                             /\ now - h[inst].lastFailure > COOLDOWN_PERIOD}
         IN /\ Range(req'[r].shuffled) = eligible
            /\ Len(req'[r].shuffled) = Cardinality(eligible)
            /\ DOMAIN instanceHealth' = DOMAIN h \ expired
            /\ \A inst \in DOMAIN instanceHealth' : instanceHealth'[inst] = h[inst]
            /\ \A inst \in DOMAIN h :
                  h[inst].failures < FAILURE_THRESHOLD => inst \in Range(req'[r].shuffled)
            /\ \A inst \in scenario.registry \ Range(req'[r].shuffled) :
                  /\ h[inst].failures >= FAILURE_THRESHOLD
                  /\ now - h[inst].lastFailure <= COOLDOWN_PERIOD]_vars

\* a search started exactly COOLDOWN_PERIOD after the recorded failures: the
\* instance at the threshold is left out, the one below it is a candidate
C4_Witness ==
    \E r \in Requests :
        /\ req[r].pc = "batch"
        /\ now = COOLDOWN_PERIOD
        /\ "https://a.test" \in Range(req[r].shuffled)
        /\ "https://b.test" \notin Range(req[r].shuffled)
        /\ "https://c.test" \in Range(req[r].shuffled)
        /\ FailuresOf(instanceHealth, "https://a.test") = FAILURE_THRESHOLD - 1
        /\ FailuresOf(instanceHealth, "https://b.test") = FAILURE_THRESHOLD

\* C5: an instance with FAILURE_THRESHOLD recorded failures is no candidate
\* of a search that starts within COOLDOWN_PERIOD of its last failure, and
\* that search sends it nothing; a search that starts later has it as a
\* candidate, contacts it and finds its failure count back at zero.  Nothing
\* but the searches themselves does this.
C5_CooldownRestores ==
    [][\A r \in Requests :
         /\ Filters(r) =>
              \A inst \in scenario.registry :
                 FailuresOf(instanceHealth, inst) >= FAILURE_THRESHOLD =>
                 IF now - instanceHealth[inst].lastFailure > COOLDOWN_PERIOD
                 THEN /\ inst \in Range(req'[r].shuffled)
                      /\ FailuresOf(instanceHealth', inst) = 0
                      /\ \E m \in req'[r].sent : m.inst = inst
                 ELSE /\ inst \notin Range(req'[r].shuffled)
                      /\ instanceHealth'[inst] = instanceHealth[inst]
         /\ \A m \in req'[r].sent \ req[r].sent : m.inst \in Range(req'[r].shuffled)]_vars

\* the first request's task brought the instance to the threshold; the second
\* request, started after the cooldown, has it as a candidate with no record
C5_Witness ==
    /\ req[1].task["https://a.test"].st = "rejected"
    /\ req[2].pc = "batch"
    /\ "https://a.test" \in Range(req[2].shuffled)
    /\ "https://a.test" \notin DOMAIN instanceHealth
    /\ now > COOLDOWN_PERIOD

C6_Answer(rq) ==
    /\ rq.pc = "done" => rq.status \in {200, 400, 404}
    /\ (rq.pc # "idle" /\ Truthy(rq.query) /\ ~rq.cacheHit /\ rq.shuffled = <<>>)
          => rq.pc = "done" /\ rq.status = 404 /\ rq.sent = {}
    /\ (rq.pc = "done" /\ Truthy(rq.query) /\ ~rq.cacheHit /\ rq.instanceUsed = Null)
          => rq.status = 404

\* C6: a search with no eligible instance answers 404 at once, sending
\* nothing; a search none of whose instances delivers answers 404; and,
\* outbound requests always settling, every request is answered.
C6_AlwaysAnswers ==
    /\ [](\A r \in Requests : C6_Answer(req[r]))
    /\ \A r \in Requests : (req[r].pc # "idle") ~> (req[r].pc = "done")

\* all three instances were contacted, every one failed, the answer is 404
C6_Witness ==
    \E r \in Requests :
        /\ req[r].pc = "done" /\ req[r].status = 404
        /\ req[r].instanceUsed = Null
        /\ Len(req[r].shuffled) = Cardinality(SEARXNG_INSTANCES)
        /\ \A inst \in SEARXNG_INSTANCES : FailuresOf(instanceHealth, inst) = 1

\* C7: a request is answered 200, 400 or 404 and nothing else; it is answered
\* 404 only with no results after every batch of candidates was raced, the
\* first candidate was scraped and, for images and videos, every candidate of
\* the broadened fallback was asked.
C7_NoSingleFailureFatal ==
    \A r \in Requests :
        LET rq == req[r] IN
        /\ rq.status \in {0, 200, 400, 404}
        /\ (rq.pc = "done") = (rq.status # 0)
        /\ rq.status = 404 =>
             /\ Len(rq.results) = 0
             /\ \A k \in 1..Min(Len(rq.shuffled), maxTotalInstances) :
                   JsonRequest(rq.shuffled[k], rq.category, rq.safebased, 1) \in rq.sent
             /\ Len(rq.shuffled) > 0 =>
                   ScrapeRequest(rq.shuffled[1], rq.category, rq.safebased) \in rq.sent
             /\ rq.category \in {"images", "videos"} =>
                   \A k \in 1..Min(Len(rq.shuffled), fallbackLimit) :
                      FallbackRequest(rq.shuffled[k], rq.safebased) \in rq.sent

\* the filter threw on the first batch's winner and a later batch answered
C7_Witness ==
    \E r \in Requests, inst \in SEARXNG_INSTANCES :
        /\ req[r].status = 200
        /\ req[r].task[inst].st = "fulfilled"
        /\ req[r].task[inst].kept = -1

\* C8: a request whose q is absent or empty is answered 400 with the message
\* "Query is required"; it sends nothing, is not answered from the cache, and
\* leaves the cache and the health records untouched.
C8_EmptyQueryRefused ==
    [][\A r \in Requests :
         (Arrives(r) /\ req'[r].query \in {Undef, ""})
         => /\ req'[r].pc = "done"
            /\ req'[r].status = 400
            /\ req'[r].body.error = "Query is required"
            /\ ~req'[r].cacheHit
            /\ req'[r].sent = {}
            /\ req'[r].shuffled = <<>>
            /\ searchCache' = searchCache
            /\ instanceHealth' = instanceHealth]_vars

\* refused while the cache holds an entry and a health record is due for
\* deletion by the next search
C8_Witness ==
    /\ req[2].status = 400
    /\ DOMAIN searchCache # {}
    /\ FailuresOf(instanceHealth, "https://a.test") >= FAILURE_THRESHOLD
    /\ now - instanceHealth["https://a.test"].lastFailure > COOLDOWN_PERIOD

\* C9: from the step that picks a batch's winner on, no task of that batch
\* is waiting for an answer and no further request goes out to the batch's
\* instances from the race.
C9_WinnerCancelsSiblings ==
    [][\A r \in Requests, inst \in SEARXNG_INSTANCES :
         req'[r].task[inst].st = "fulfilled" =>
         \A x \in BatchOf(req'[r], inst) :
            /\ req'[r].task[x].st \in {"fulfilled", "rejected"}
            /\ {m \in req'[r].sent : m.phase = "json" /\ m.inst = x} \subseteq req[r].sent]_vars

\* a sibling cancelled before it got to its second category
C9_Witness ==
    \E r \in Requests, inst \in SEARXNG_INSTANCES, x \in SEARXNG_INSTANCES :
        /\ req[r].task[inst].st = "fulfilled"
        /\ x \in BatchOf(req[r], inst)
        /\ req[r].task[x].st = "rejected" /\ req[r].task[x].why = "cancelled"
        /\ req[r].task[x].attempt < Len(CategoriesToTry(req[r].category))

\* C10: once a batch's winner has filtered results the request is answered
\* 200 with them: no instance after that batch is contacted, and neither
\* the scrape nor the broadened fallback takes place.
C10_WinningBatchEndsSearch ==
    \A r \in Requests, inst \in SEARXNG_INSTANCES :
        LET rq == req[r] IN
        (rq.task[inst].st = "fulfilled" /\ rq.task[inst].kept > 0)
        => /\ rq.pc = "done" /\ rq.status = 200
           /\ rq.body.data.instance = inst
           /\ rq.body.data.count = rq.task[inst].kept
           /\ \A m \in rq.sent :
                 /\ m.phase = "json"
                 /\ m.inst \in BatchOf(rq, inst)
                    \/ PositionOf(rq.shuffled, m.inst) < PositionOf(rq.shuffled, inst)
           /\ \A x \in SEARXNG_INSTANCES :
                 (x \in Range(rq.shuffled) /\ x \notin BatchOf(rq, inst)
                    /\ PositionOf(rq.shuffled, x) > PositionOf(rq.shuffled, inst))
                 => rq.task[x].st = "none"

\* the first batch is won while a second batch of candidates is left
C10_Witness ==
    \E r \in Requests, inst \in SEARXNG_INSTANCES :
        /\ req[r].task[inst].st = "fulfilled" /\ req[r].task[inst].kept > 0
        /\ PositionOf(req[r].shuffled, inst) <= batchSize
        /\ Len(req[r].shuffled) > batchSize

\* C11: a batch task whose fetch is answered with well-formed JSON that has
\* no results property or an empty results array does not become the
\* batch's winner by that answer, whatever the state of its siblings.
C11_EmptyNeverWins ==
    [][\A r \in Requests, inst \in SEARXNG_INSTANCES, outcome \in JsonOutcomes :
         (/\ outcome.kind = "json"
          /\ ~outcome.hasResults \/ outcome.results = <<>>
          /\ TaskRespond(r, inst, outcome))
         => /\ req'[r].task[inst].st # "fulfilled"
            /\ req'[r].instanceUsed = req[r].instanceUsed
            /\ req'[r].results = req[r].results]_vars

\* the instance that answered with empty JSON lost to a sibling that
\* answered later
C11_Witness ==
    \E r \in Requests, inst \in SEARXNG_INSTANCES, x \in SEARXNG_INSTANCES :
        /\ req[r].task[x].st = "rejected" /\ req[r].task[x].why = "empty"
        /\ inst \in BatchOf(req[r], x)
        /\ req[r].task[inst].st = "fulfilled"
        /\ req[r].instanceUsed = inst

\* C12: a step that records a failure for an instance leaves that instance
\* with its previous failure count plus one (1 when it had no record) and
\* with the current time as its last failure; the records of the instances
\* it records nothing for are untouched (or deleted by a filter, never
\* altered); the recording request goes on; and the cache changes only by
\* the store of a request answered 200 in that step.
C12_RecordFailureEffect ==
    [][/\ \A inst \in SEARXNG_INSTANCES :
            IF \E r \in Requests : /\ req[r].task[inst].st = "inflight"
                                   /\ req'[r].task[inst].st = "rejected"
            THEN /\ inst \in DOMAIN instanceHealth'
                 /\ instanceHealth'[inst].failures = FailuresOf(instanceHealth, inst) + 1
                 /\ instanceHealth'[inst].lastFailure = now
            ELSE inst \in DOMAIN instanceHealth'
                    => /\ inst \in DOMAIN instanceHealth
                       /\ instanceHealth'[inst] = instanceHealth[inst]
       /\ \A r \in Requests :
            (\E inst \in SEARXNG_INSTANCES : /\ req[r].task[inst].st = "inflight"
                                             /\ req'[r].task[inst].st = "rejected")
            => /\ req'[r].pc \in {"batch", "scrape", "fallback", "done"}
               /\ req'[r].status \in {0, 200, 404}
               /\ req'[r].status = 0 => searchCache' = searchCache
               /\ \A k \in DOMAIN searchCache' :
                     k # KeyOf(req'[r]) => k \in DOMAIN searchCache /\ searchCache'[k] = searchCache[k]]_vars

\* at a later time one record was created at 1, one was raised to the
\* threshold, and the record of the instance left out is as it was
C12_Witness ==
    /\ now > 0
    /\ FailuresOf(instanceHealth, "https://c.test") = 1
    /\ instanceHealth["https://c.test"].lastFailure = now
    /\ FailuresOf(instanceHealth, "https://a.test") = FAILURE_THRESHOLD
    /\ instanceHealth["https://a.test"].lastFailure = now
    /\ FailuresOf(instanceHealth, "https://b.test") = FAILURE_THRESHOLD
    /\ instanceHealth["https://b.test"].lastFailure = 0

\* C13: when the handler leaves a batch none of whose tasks won, every
\* instance of that batch has its task rejected and the failure in its
\* health record, in the very step that starts the next batch's tasks or the
\* scrape request: a task rejected in that step has its count raised by one
\* at the current time, a task rejected earlier already had its record.
C13_RecordedBeforeMovingOn ==
    [][\A r \in Requests :
         (/\ req[r].pc = "batch"
          /\ req'[r].pc # "batch" \/ req'[r].i # req[r].i
          /\ \A inst \in BatchAt(req[r], req[r].i) : req'[r].task[inst].st # "fulfilled")
         => \A inst \in BatchAt(req[r], req[r].i) :
               /\ req'[r].task[inst].st = "rejected"
               /\ inst \in DOMAIN instanceHealth'
               /\ IF req[r].task[inst].st = "rejected"
                  THEN /\ inst \in DOMAIN instanceHealth
                       /\ instanceHealth'[inst] = instanceHealth[inst]
                  ELSE /\ instanceHealth'[inst].failures = FailuresOf(instanceHealth, inst) + 1
                       /\ instanceHealth'[inst].lastFailure = now]_vars

\* the second batch is in flight after the first one's tasks failed, one by
\* an error and one by the batch timeout, each with its failure on record
C13_Witness ==
    \E r \in Requests :
        /\ req[r].pc = "batch" /\ req[r].i = batchSize
        /\ Pending(req[r]) # {}
        /\ \A inst \in BatchAt(req[r], 0) :
              /\ req[r].task[inst].st = "rejected"
              /\ FailuresOf(instanceHealth, inst) = 1
        /\ \E inst \in BatchAt(req[r], 0) : req[r].task[inst].why = "error"
        /\ \E inst \in BatchAt(req[r], 0) : req[r].task[inst].why = "timeout"

\* C14: an instance whose answer has results none of which survives the
\* category filter has its failure count raised by one in that step, and
\* the tasks of its batch that are still waiting keep waiting.
C14_EmptyFilterIsFailure ==
    [][\A r \in Requests, inst \in SEARXNG_INSTANCES :
         (/\ req[r].task[inst].st = "inflight"
          /\ req'[r].task[inst].st = "fulfilled"
          /\ req'[r].task[inst].kept = 0)
         => /\ FailuresOf(instanceHealth', inst) = FailuresOf(instanceHealth, inst) + 1
            /\ \A x \in BatchOf(req[r], inst) :
                  req[r].task[x].st = "inflight" /\ x # inst
                  => req'[r].task[x].st = "inflight"]_vars

\* the next batch is in flight after a winner with nothing left by the
\* filter, and that winner has no failure on record
C14_Witness ==
    \E r \in Requests, inst \in SEARXNG_INSTANCES :
        /\ req[r].task[inst].st = "fulfilled" /\ req[r].task[inst].kept = 0
        /\ inst \notin DOMAIN instanceHealth
        /\ req[r].pc = "batch"
        /\ inst \notin BatchAt(req[r], req[r].i)

\* C15: once the batches are over, every instance whose JSON attempt gave
\* nothing usable (a failed or empty answer, or an answer emptied by the
\* category filter) has had the scrape request sent to it.
C15_ScrapeEachInstance ==
    \A r \in Requests, inst \in SEARXNG_INSTANCES :
        LET rq == req[r] IN
        (/\ rq.pc = "scrape"
         /\ \/ rq.task[inst].st = "rejected" /\ rq.task[inst].why \in {"error", "empty"}
            \/ rq.task[inst].st = "fulfilled" /\ rq.task[inst].kept = 0)
        => ScrapeRequest(inst, rq.category, rq.safebased) \in rq.sent

\* the batches are over, the second candidate answered with empty JSON and
\* the only scrape request went to the first candidate
C15_Witness ==
    \E r \in Requests :
        /\ req[r].pc = "scrape"
        /\ Len(req[r].shuffled) >= 2
        /\ req[r].task[req[r].shuffled[2]].st = "rejected"
        /\ req[r].task[req[r].shuffled[2]].why = "empty"
        /\ {m \in req[r].sent : m.phase = "scrape"}
              = {ScrapeRequest(req[r].shuffled[1], req[r].category, req[r].safebased)}

\* C16: with searches running concurrently, every step raises an
\* instance's failure count by exactly the number of its tasks rejected in
\* that step, over whatever the other searches have recorded so far, and a
\* failure recorded when the record has been deleted leaves the count at 1.
C16_AtomicUpdates ==
    [][\A inst \in SEARXNG_INSTANCES :
         LET k == Cardinality({r \in Requests : /\ req[r].task[inst].st = "inflight"
                                                /\ req'[r].task[inst].st = "rejected"})
         IN k > 0 =>
              /\ inst \in DOMAIN instanceHealth'
              /\ instanceHealth'[inst].failures = FailuresOf(instanceHealth, inst) + k
              /\ inst \notin DOMAIN instanceHealth
                    => instanceHealth'[inst] = [failures |-> 1, lastFailure |-> now]]_vars

\* two searches under way at once, each with its task on the instance
\* rejected: two failures recorded, the count is two
C16_Witness ==
    /\ req[1].pc = "scrape" /\ req[2].pc = "scrape"
    /\ req[1].task["https://a.test"].st = "rejected"
    /\ req[2].task["https://a.test"].st = "rejected"
    /\ FailuresOf(instanceHealth, "https://a.test") = 2

\* C17: cold cache, two eligible instances A and B, query "cats", category
\* general, safe false.  When A's only fetch never got an answer and B
\* answered with one result that has a snippet, the request is answered 200
\* with exactly that one result and B as aggregations.instance, A has
\* exactly one failure on record and B has none.
C17_EndToEnd ==
    \A r \in Requests, A \in scenario.registry, B \in scenario.registry :
        LET rq == req[r] IN
        (/\ rq.query = "cats" /\ rq.category = "general" /\ ~rq.safebased
         /\ Range(rq.shuffled) = {A, B} /\ A # B
         /\ rq.task[A].st = "rejected" /\ rq.task[A].why \in {"cancelled", "timeout"}
         /\ rq.task[B].st = "fulfilled" /\ rq.task[B].kept = 1
         /\ rq.results[1].snippet # "")
        => /\ rq.pc = "done" /\ rq.status = 200
           /\ rq.body.data.query = "cats" /\ rq.body.data.category = "general"
           /\ Len(rq.body.data.results) = 1
           /\ rq.body.data.count = 1
           /\ rq.body.data.instance = B
           /\ FailuresOf(instanceHealth, A) = 1
           /\ B \notin DOMAIN instanceHealth
           /\ rq.sent = {JsonRequest(A, "general", FALSE, 1), JsonRequest(B, "general", FALSE, 1)}

\* that request, answered
C17_Witness ==
    \E r \in Requests :
        LET rq == req[r] IN
        /\ rq.query = "cats" /\ rq.category = "general" /\ ~rq.safebased
        /\ rq.shuffled = <<"https://a.test", "https://b.test">>
        /\ rq.task["https://a.test"].st = "rejected"
        /\ rq.task["https://a.test"].why = "cancelled"
        /\ rq.task["https://b.test"].st = "fulfilled"
        /\ rq.results = MapWinner(<<textItem>>, "general")
        /\ rq.status = 200

\* the items the category filter is to keep of the mixed set
C18_Expected(category) ==
    IF category = "images" THEN <<imgItem>>
    ELSE IF category = "videos" THEN <<vidItem>>
    ELSE <<textItem>>

\* C18: of an answer holding one item with only an image marker, one with
\* only a video marker and one plain text item, a request for images keeps
\* exactly the first, one for videos exactly the second, and one for
\* general exactly the text item.
C18_CategoryFilter ==
    [][\A r \in Requests, inst \in SEARXNG_INSTANCES, outcome \in JsonOutcomes :
         (/\ outcome.kind = "json" /\ outcome.hasResults
          /\ outcome.results = <<imgItem, vidItem, textItem>>
          /\ TaskRespond(r, inst, outcome))
         => req'[r].results = MapWinner(C18_Expected(req[r].category), req[r].category)]_vars

\* a general request answered with all three items of the mixed set
C18_Witness ==
    \E r \in Requests :
        /\ req[r].category = "general" /\ req[r].status = 200
        /\ req[r].body.data.results = MapWinner(<<imgItem, vidItem, textItem>>, "general")

\* C19: a request whose key has a cache entry is answered with the stored
\* payload exactly when now - timestamp <= CACHE_TTL, an entry of age
\* CACHE_TTL included; with an older entry the request dispatches as if
\* there were none, and the entry stays in the map.
C19_TtlInclusive ==
    [][\A r \in Requests :
         (/\ Arrives(r)
          /\ Truthy(req'[r].query)
          /\ KeyOf(req'[r]) \in DOMAIN searchCache)
         => LET entry == searchCache[KeyOf(req'[r])] IN
            IF now - entry.timestamp <= CACHE_TTL
            THEN /\ req'[r].cacheHit
                 /\ req'[r].status = 200
                 /\ req'[r].body.data = entry.data
            ELSE /\ ~req'[r].cacheHit
                 /\ req'[r].shuffled # <<>> => req'[r].sent # {}
                 /\ KeyOf(req'[r]) \in DOMAIN searchCache'
                 /\ searchCache'[KeyOf(req'[r])] = entry]_vars

\* a request dispatched although the entry for its key is exactly
\* CACHE_TTL old
C19_Witness ==
    \E r \in Requests :
        /\ req[r].pc = "batch" /\ ~req[r].cacheHit
        /\ KeyOf(req[r]) \in DOMAIN searchCache
        /\ now - searchCache[KeyOf(req[r])].timestamp = CACHE_TTL

\* C20: two accepted requests have the same cache key only if their query,
\* category and safe flag are equal, and a request answered from the cache
\* gets a payload that was produced for its own query and category.
C20_KeyIsTriple ==
    \A r \in Requests, p \in Requests :
        (req[r].pc # "idle" /\ req[p].pc # "idle"
            /\ Truthy(req[r].query) /\ Truthy(req[p].query))
        => /\ KeyOf(req[r]) = KeyOf(req[p])
                => /\ req[r].query = req[p].query
                   /\ req[r].category = req[p].category
                   /\ req[r].safebased = req[p].safebased
           /\ req[r].cacheHit
                => /\ req[r].body.data.query = req[r].query
                   /\ req[r].body.data.category = req[r].category

\* a request answered from the cache with the payload of another query
C20_Witness ==
    \E r \in Requests :
        /\ req[r].cacheHit /\ req[r].status = 200
        /\ req[r].body.data.query # req[r].query
        /\ req[r].body.data.category # req[r].category

\* request r is answered in this step
Answered(r) == req[r].pc # "done" /\ req'[r].pc = "done"

\* C21: no step removes a cache entry; an entry is new or different after
\* a step only when a request's own search ended in that step with results,
\* the entry then being that request's response data stamped with the
\* current time under its key; such a request always stores; and a step
\* that answers 400 or 404 leaves the cache as it was.
C21_CacheWrites ==
    [][/\ DOMAIN searchCache \subseteq DOMAIN searchCache'
       /\ \A k \in DOMAIN searchCache' :
            (k \notin DOMAIN searchCache \/ searchCache'[k] # searchCache[k])
            => \E r \in Requests :
                  /\ Answered(r) /\ req'[r].status = 200 /\ ~req'[r].cacheHit
                  /\ Len(req'[r].results) > 0
                  /\ KeyOf(req'[r]) = k
                  /\ searchCache'[k] = [data |-> req'[r].body.data, timestamp |-> now]
       /\ \A r \in Requests :
            Answered(r) =>
               IF req'[r].status = 200 /\ ~req'[r].cacheHit
               THEN /\ KeyOf(req'[r]) \in DOMAIN searchCache'
                    /\ searchCache'[KeyOf(req'[r])] =
                          [data |-> req'[r].body.data, timestamp |-> now]
               ELSE searchCache' = searchCache]_vars

\* the entry of the first search, by then CACHE_TTL old, replaced by the
\* second search's different payload and time
C21_Witness ==
    /\ req[1].status = 200 /\ ~req[1].cacheHit
    /\ req[2].status = 200 /\ ~req[2].cacheHit
    /\ KeyOf(req[1]) = KeyOf(req[2])
    /\ req[1].body.data # req[2].body.data
    /\ searchCache[KeyOf(req[2])] = [data |-> req[2].body.data, timestamp |-> CACHE_TTL]

\* the candidates of the broadened fallback
C22_Last(rq) == Min(Len(rq.shuffled), fallbackLimit)

\* C22: the broadened fallback runs only for images and videos, with no
\* results so far and the scrape behind it; it asks the first candidates
\* (at most fallbackLimit) one after another for general results; the
\* first answer of which the requested category's markers keep something
\* ends the request with 200, those items and that instance; any other
\* answer moves to the next candidate; and a request for images or videos
\* with candidates is answered 404 only by the last of them yielding nothing.
C22_BroadenedFallback ==
    [][\A r \in Requests :
         /\ req'[r].pc = "fallback" =>
              /\ req'[r].category \in {"images", "videos"}
              /\ Len(req'[r].results) = 0
              /\ req'[r].fb \in 1..C22_Last(req'[r])
              /\ ScrapeRequest(req'[r].shuffled[1], req'[r].category, req'[r].safebased)
                    \in req'[r].sent
              /\ {m \in req'[r].sent : m.phase = "fallback"}
                    = {FallbackRequest(req'[r].shuffled[k], req'[r].safebased) :
                          k \in 1..req'[r].fb}
              /\ \A m \in req'[r].sent : m.phase = "fallback" => m.categories = ""
         /\ (req[r].pc = "fallback" /\ req'[r] # req[r]) =>
              \E outcome \in JsonOutcomes :
                 LET x == ExtractFallback(outcome, req[r].category) IN
                 IF ~x.threw /\ Len(x.items) > 0
                 THEN /\ req'[r].pc = "done" /\ req'[r].status = 200
                      /\ req'[r].body.data.results = x.items
                      /\ req'[r].body.data.instance = req[r].shuffled[req[r].fb]
                 ELSE IF req[r].fb < C22_Last(req[r])
                 THEN req'[r].pc = "fallback" /\ req'[r].fb = req[r].fb + 1
                 ELSE req'[r].pc = "done" /\ req'[r].status = 404
         /\ (/\ Answered(r) /\ req'[r].status = 404
             /\ req'[r].category \in {"images", "videos"}
             /\ req'[r].shuffled # <<>>) =>
              req[r].pc = "fallback" /\ req[r].fb = C22_Last(req[r])]_vars

\* a videos request answered by the second candidate of the fallback
C22_Witness ==
    \E r \in Requests :
        /\ req[r].category = "videos"
        /\ req[r].pc = "done" /\ req[r].status = 200
        /\ req[r].fb = 2
        /\ req[r].body.data.instance = req[r].shuffled[2]
        /\ \A k \in 1..Len(req[r].results) : req[r].results[k].type = "videos"

\* the results of the 200 answer of rq (none otherwise)
Returned(rq) == IF rq.status = 200 THEN rq.body.data.results ELSE <<>>

\* u parses as an absolute URL
AbsoluteUrl(u) == Hostname(u) # Threw

\* C23: every result of every 200 answer, whichever path produced it, has
\* a url that is an absolute URL.
C23_AbsoluteUrls ==
    \A r \in Requests :
        \A k \in 1..Len(Returned(req[r])) : AbsoluteUrl(Returned(req[r])[k].url)

\* a 200 answer holding a result whose url is the placeholder "#" (backend
\* item without url) or the backend's relative link as it came
C23_Witness ==
    \E r \in Requests :
        \E k \in 1..Len(Returned(req[r])) :
            Returned(req[r])[k].url \in {"#", "/local/page"}

\* every result of every 200 answer
AllReturned == UNION {Range(Returned(req[r])) : r \in Requests}

\* C24: every returned result's domain is the host of its url, and two
\* returned results with equal domain have equal favicon.
C24_DomainIsHost ==
    /\ \A x \in AllReturned : x.domain = Hostname(x.url)
    /\ \A x \in AllReturned, y \in AllReturned :
           x.domain = y.domain => x.favicon = y.favicon

\* a returned result whose url is the placeholder "#" while its domain
\* is the host of the stand-in "http://localhost"
C24_Witness ==
    \E x \in AllReturned : x.url = "#" /\ x.domain = "localhost"

\* the three categories of the public contract
Categories == {"general", "images", "videos"}

\* C25: every result of every 200 answer has one of the three categories
\* as its type, whatever category the backend attached to the raw item.
C25_TypeIsCategory ==
    \A x \in AllReturned : x.type \in Categories

\* a returned result that carries the backend's own category "news"
C25_Witness ==
    \E r \in Requests :
        /\ req[r].status = 200
        /\ req[r].category \in Categories
        /\ \E k \in 1..Len(Returned(req[r])) : Returned(req[r])[k].type = "news"

\* C26: in onRequest of unnamed/part_001 the answer reports the instance
\* and the results of the batch task that was first to return a non-empty
\* result set, and the handler never keeps waiting for the other tasks of
\* a batch once one of them has returned results.
C26_FirstSuccessWins ==
    /\ worker.status = 200 =>
          /\ worker.instanceUsed = worker.order[1]
          /\ worker.instance = HostOfInstance(worker.order[1])
          /\ worker.results = worker.task[worker.order[1]].results
    /\ ~(worker.pc = "batch" /\ worker.order # <<>>)

\* a 200 answer that reports another instance than the one whose task was
\* first to return results, after both tasks of the batch were awaited
C26_Witness ==
    /\ worker.status = 200
    /\ Len(worker.order) = 2
    /\ worker.instanceUsed = worker.order[2]
    /\ worker.results # worker.task[worker.order[1]].results

\* C27: every failure of an instance raises that instance's failure count
\* by one in the step in which the handler moves on: a batch task rejected
\* by an error, an empty answer or the batch timeout, a scrape request
\* that gave no result, and a broadened-fallback request that gave none.
C27_EveryFailureCounted ==
    [][\A r \in Requests :
         /\ \A inst \in SEARXNG_INSTANCES :
               (/\ req[r].task[inst].st = "inflight"
                /\ req'[r].task[inst].st = "rejected"
                /\ req'[r].task[inst].why \in {"error", "empty", "timeout"})
               => FailuresOf(instanceHealth', inst) = FailuresOf(instanceHealth, inst) + 1
         /\ (/\ req[r].pc = "scrape"
             /\ req'[r].pc # "scrape"
             /\ Len(req'[r].results) = 0)
            => FailuresOf(instanceHealth', req[r].shuffled[1])
                  = FailuresOf(instanceHealth, req[r].shuffled[1]) + 1
         /\ (/\ req[r].pc = "fallback"
             /\ req'[r] # req[r]
             /\ req'[r].status # 200)
            => FailuresOf(instanceHealth', req[r].shuffled[req[r].fb])
                  = FailuresOf(instanceHealth, req[r].shuffled[req[r].fb]) + 1]_vars

\* a search that ended in 404 after its scrape request and a broadened-
\* fallback request to the same instance both gave nothing, while that
\* instance has no health record at all
C27_Witness ==
    \E r \in Requests, inst \in SEARXNG_INSTANCES :
        /\ req[r].pc = "done" /\ req[r].status = 404
        /\ \E m \in req[r].sent : m.inst = inst /\ m.phase = "scrape"
        /\ \E m \in req[r].sent : m.inst = inst /\ m.phase = "fallback"
        /\ inst \notin DOMAIN instanceHealth

\* C28: whenever a search of its own answers 200, aggregations.instance is
\* the instance whose response, received in that step, gave the returned
\* results: the batch winner whose answer survived the filter, the scraped
\* instance, or the broadened fallback's current instance.
C28_InstanceIsProducer ==
    [][\A r \in Requests :
         LET rq == req[r]
             data == req'[r].body.data
         IN (rq.status = 0 /\ rq.pc # "idle" /\ req'[r].status = 200)
            => /\ rq.pc = "batch" =>
                     \E inst \in SEARXNG_INSTANCES :
                        /\ rq.task[inst].st = "inflight"
                        /\ req'[r].task[inst].st = "fulfilled"
                        /\ req'[r].task[inst].kept = Len(data.results)
                        /\ data.instance = inst
               /\ rq.pc = "scrape" => data.instance = rq.shuffled[1]
               /\ rq.pc = "fallback" => data.instance = rq.shuffled[rq.fb]
               /\ data.instance \in Range(rq.shuffled)]_vars

\* a 200 answer from the winner of the second batch, after the winner of
\* the first batch was discarded because the filter left nothing of it
C28_Witness ==
    \E r \in Requests, first \in SEARXNG_INSTANCES, second \in SEARXNG_INSTANCES :
        /\ req[r].status = 200
        /\ req[r].task[first].st = "fulfilled" /\ req[r].task[first].kept = 0
        /\ req[r].task[second].st = "fulfilled" /\ req[r].task[second].kept > 0
        /\ req[r].body.data.instance = second

\* C29: no request of a search, in the batch phase, the scrape fallback or
\* the broadened fallback, goes to an instance that the eligibility filter
\* rejected when the search started: one with FAILURE_THRESHOLD failures or
\* more on record and a last failure at most COOLDOWN_PERIOD before.
C29_NeverSendsToRejected ==
    [][\A r \in Requests :
         LET h == instanceHealth
             rejected == IF Filters(r)
                         THEN {inst \in DOMAIN h :
                                  /\ h[inst].failures >= FAILURE_THRESHOLD
                                  /\ now - h[inst].lastFailure <= COOLDOWN_PERIOD}
                         ELSE scenario.registry \ Range(req[r].shuffled)
         IN /\ \A m \in req'[r].sent \ req[r].sent : m.inst \notin rejected
            /\ req[r].pc # "idle" => req'[r].shuffled = req[r].shuffled]_vars

\* a search that has sent requests in all three phases while an instance of
\* the registry was rejected at its start: none of them went to it
C29_Witness ==
    \E r \in Requests, x \in scenario.registry :
        /\ req[r].shuffled # <<>>
        /\ x \notin Range(req[r].shuffled)
        /\ {m.phase : m \in req[r].sent} = {"json", "scrape", "fallback"}
        /\ \A m \in req[r].sent : m.inst # x

\* the instances rq has sent a request of that phase to
SentTo(rq, phase) == {m.inst : m \in {x \in rq.sent : x.phase = phase}}

\* C30: the attempt budget of one search is bounded.  Batch tasks start
\* only at a loop index that is a multiple of batchSize below
\* maxTotalInstances, beyond the previous one, at most batchSize of them
\* at once and only for instances that had no task before, so at most
\* maxTotalInstances instances get a task; at most one scrape request and
\* at most fallbackLimit broadened-fallback requests follow, one per
\* position of the eligible list's head.
C30_BoundedBudget ==
    [][\A r \in Requests :
         LET rq == req[r]
             after == req'[r]
             started == {inst \in SEARXNG_INSTANCES :
                            rq.task[inst].st # "inflight" /\ after.task[inst].st = "inflight"}
             new == after.sent \ rq.sent
         IN /\ started # {} =>
                  /\ Cardinality(started) <= batchSize
                  /\ \A inst \in started : rq.task[inst].st = "none" /\ inst \notin SentTo(rq, "json")
                  /\ after.i < maxTotalInstances /\ after.i % batchSize = 0
                  /\ rq.pc = "batch" => after.i > rq.i
                  /\ Pending(rq) \cap Pending(after) = {}
                  /\ SentTo(rq, "scrape") \cup SentTo(rq, "fallback") = {}
            /\ Cardinality(SentTo(after, "json")) <= maxTotalInstances
            /\ (\E m \in new : m.phase = "scrape") =>
                  /\ rq.pc \in {"idle", "batch"}
                  /\ SentTo(rq, "scrape") = {}
                  /\ Cardinality(SentTo(after, "scrape")) = 1
            /\ (\E m \in new : m.phase = "fallback") =>
                  /\ after.fb = IF rq.pc = "fallback" THEN rq.fb + 1 ELSE 1
                  /\ after.fb <= fallbackLimit
                  /\ SentTo(after, "fallback") = SentTo(rq, "fallback") \cup {after.shuffled[after.fb]}
                  /\ after.shuffled[after.fb] \notin SentTo(rq, "fallback")
            /\ Cardinality(SentTo(after, "fallback")) <= fallbackLimit]_vars

\* a search over more eligible instances than maxTotalInstances that ended
\* in 404 with its whole budget spent: maxTotalInstances batch tasks, the
\* scrape request and fallbackLimit fallback requests, and one eligible
\* instance never contacted
C30_Witness ==
    \E r \in Requests :
        /\ req[r].pc = "done" /\ req[r].status = 404
        /\ Len(req[r].shuffled) > maxTotalInstances
        /\ Cardinality(SentTo(req[r], "json")) = maxTotalInstances
        /\ Cardinality(SentTo(req[r], "scrape")) = 1
        /\ Cardinality(SentTo(req[r], "fallback")) = fallbackLimit
        /\ \E inst \in Range(req[r].shuffled) : \A m \in req[r].sent : m.inst # inst

\* C31: the batches of one search run strictly in sequence.  While a batch
\* is running, every task of the batches before it has been rejected
\* (failed, timed out or cancelled) or has won; and at every moment the
\* tasks waiting for an answer all belong to the current batch, so at most
\* batchSize instances have a request in flight.
C31_BatchesInSequence ==
    \A r \in Requests :
       LET rq == req[r]
       IN /\ rq.pc = "batch" =>
                \A k \in 1..rq.i :
                   rq.task[rq.shuffled[k]].st \in {"rejected", "fulfilled"}
          /\ Pending(rq) \subseteq BatchAt(rq, rq.i)
          /\ Cardinality(Pending(rq)) <= batchSize

\* the second batch is in flight after the first batch's winner was
\* discarded by the filter and its sibling was cancelled
C31_Witness ==
    \E r \in Requests, w \in SEARXNG_INSTANCES, x \in SEARXNG_INSTANCES :
        /\ req[r].pc = "batch" /\ req[r].i = batchSize
        /\ Pending(req[r]) = BatchAt(req[r], batchSize)
        /\ {w, x} = BatchAt(req[r], 0) /\ w # x
        /\ req[r].task[w].st = "fulfilled"
        /\ req[r].task[x].st = "rejected" /\ req[r].task[x].why = "cancelled"

\* C32: a health record disappears only in a step in which a search runs
\* the eligibility filter, and only if its count was at or above
\* FAILURE_THRESHOLD and its last failure more than COOLDOWN_PERIOD ago; a
\* record that stays never has its count lowered; and the step in which an
\* instance's task is fulfilled leaves that instance's record, or its
\* absence, as it was.
C32_RecordsOnlyExpire ==
    [][\A inst \in SEARXNG_INSTANCES :
         LET h == instanceHealth
             after == instanceHealth'
         IN /\ (inst \in DOMAIN h /\ inst \notin DOMAIN after) =>
                  /\ \E r \in Requests : Filters(r)
                  /\ h[inst].failures >= FAILURE_THRESHOLD
                  /\ now - h[inst].lastFailure > COOLDOWN_PERIOD
            /\ (inst \in DOMAIN h /\ inst \in DOMAIN after) =>
                  after[inst].failures >= h[inst].failures
            /\ \A r \in Requests :
                  (req[r].task[inst].st = "inflight" /\ req'[r].task[inst].st = "fulfilled")
                  => /\ (inst \in DOMAIN h) = (inst \in DOMAIN after)
                     /\ inst \in DOMAIN h => after[inst] = h[inst]]_vars

\* an instance with a record below the threshold, older than the cooldown,
\* has passed the filter and answered a search: the record is still there
C32_Witness ==
    \E r \in Requests, inst \in SEARXNG_INSTANCES :
        /\ req[r].status = 200 /\ ~req[r].cacheHit
        /\ req[r].body.data.instance = inst
        /\ inst \in DOMAIN instanceHealth
        /\ instanceHealth[inst].failures = FAILURE_THRESHOLD - 1
        /\ now - instanceHealth[inst].lastFailure > COOLDOWN_PERIOD

\* C33: a request that arrives while another search for the same key is
\* still running, and finds no fresh entry, runs a search of its own; a
\* search that ends with results replaces whatever entry its key has by
\* its own whole response, stamped with the current time; and every entry
\* is, at every moment, the whole response of one search for its key.
C33_LastWriterWins ==
    [][/\ \A r \in Requests, p \in Requests :
            (/\ Arrives(r) /\ p # r
             /\ Truthy(req'[r].query)
             /\ req[p].pc \notin {"idle", "done"}
             /\ KeyOf(req[p]) = KeyOf(req'[r])
             /\ ~CacheHit(searchCache, KeyOf(req'[r]), now))
            => /\ ~req'[r].cacheHit
               /\ req'[r].shuffled # <<>> => req'[r].sent # {}
       /\ \A r \in Requests :
            (Answered(r) /\ req'[r].status = 200 /\ ~req'[r].cacheHit)
            => searchCache'[KeyOf(req'[r])] = [data |-> req'[r].body.data, timestamp |-> now]
       /\ \A k \in DOMAIN searchCache' :
            \E r \in Requests :
               /\ req'[r].status = 200 /\ ~req'[r].cacheHit
               /\ KeyOf(req'[r]) = k
               /\ searchCache'[k].data = req'[r].body.data]_vars

\* two searches for one key overlapped (no entry can have expired yet) and
\* ended with different results: the entry is the response of the one
\* that started first and ended last
C33_Witness ==
    /\ now < CACHE_TTL
    /\ req[1].status = 200 /\ ~req[1].cacheHit
    /\ req[2].status = 200 /\ ~req[2].cacheHit
    /\ KeyOf(req[1]) = KeyOf(req[2])
    /\ req[1].body.data # req[2].body.data
    /\ searchCache[KeyOf(req[1])].data = req[1].body.data
    /\ searchCache[KeyOf(req[1])].timestamp = now

\* C34: every 200 answer, from a search or from the cache, and every cache
\* entry has at least one result and a count equal to the number of its
\* results.
C34_NonEmptyAndCounted ==
    /\ \A r \in Requests :
          req[r].status = 200 =>
             /\ Len(req[r].body.data.results) > 0
             /\ req[r].body.data.count = Len(req[r].body.data.results)
    /\ \A k \in DOMAIN searchCache :
          /\ Len(searchCache[k].data.results) > 0
          /\ searchCache[k].data.count = Len(searchCache[k].data.results)

\* a request answered from the cache with the three results of the search
\* that stored the entry
C34_Witness ==
    \E r \in Requests :
        /\ req[r].status = 200 /\ req[r].cacheHit
        /\ req[r].body.data = searchCache[KeyOf(req[r])].data
        /\ req[r].body.data.count = 3
        /\ Len(req[r].body.data.results) = 3

\* C35: every outbound request of a search, in the batch phase, the scrape
\* fallback and the broadened fallback, carries safesearch=1 when the
\* request's safe flag is set and safesearch=0 when it is not; and a
\* request answered from the cache gets the payload of a search whose
\* request had the same safe flag.
C35_SafeSearchIsolation ==
    [][/\ \A r \in Requests :
            \A m \in req'[r].sent :
               m.safesearch = IF req'[r].safebased THEN "1" ELSE "0"
       /\ \A r \in Requests :
            (Arrives(r) /\ req'[r].cacheHit)
            => \E p \in Requests \ {r} :
                  /\ req[p].status = 200 /\ ~req[p].cacheHit
                  /\ req[p].safebased = req'[r].safebased
                  /\ req[p].body.data = req'[r].body.data]_vars

\* after a search without the safe flag stored its answer, the same query
\* and category with the flag set was not served from the cache: it went
\* through batch, scrape and broadened fallback with safesearch=1
C35_Witness ==
    /\ req[1].status = 200 /\ ~req[1].cacheHit /\ ~req[1].safebased
    /\ req[2].query = req[1].query /\ req[2].category = req[1].category
    /\ req[2].safebased /\ ~req[2].cacheHit
    /\ KeyOf(req[1]) \in DOMAIN searchCache
    /\ {m.phase : m \in req[2].sent} = {"json", "scrape", "fallback"}
    /\ \A m \in req[2].sent : m.safesearch = "1"

\* C36: a request answered from the cache changes neither the health map
\* (a record whose cooldown has expired included) nor the cache, entry and
\* timestamp included, and sends nothing.
C36_CacheHitChangesNothing ==
    [][\A r \in Requests :
         (Arrives(r) /\ req'[r].cacheHit)
         => /\ instanceHealth' = instanceHealth
            /\ searchCache' = searchCache
            /\ req'[r].sent = {}
            /\ req'[r].shuffled = <<>>]_vars

\* a request was answered from the cache while an instance's record was at
\* the threshold with its cooldown over: the record is still there, and
\* the entry still has the time it was stored at
C36_Witness ==
    \E r \in Requests, inst \in SEARXNG_INSTANCES :
        /\ req[r].status = 200 /\ req[r].cacheHit
        /\ inst \in DOMAIN instanceHealth
        /\ instanceHealth[inst].failures >= FAILURE_THRESHOLD
        /\ now - instanceHealth[inst].lastFailure > COOLDOWN_PERIOD
        /\ searchCache[KeyOf(req[r])].timestamp < now
        /\ \A p \in Requests : req[p].pc = "done"

\* the instances the eligibility filter of a search would accept now
Eligible ==
    {inst \in scenario.registry :
        \/ inst \notin DOMAIN instanceHealth
        \/ instanceHealth[inst].failures < FAILURE_THRESHOLD
        \/ now - instanceHealth[inst].lastFailure > COOLDOWN_PERIOD}

\* C37: the healthy value of /api/health is the number of instances the
\* eligibility filter would accept at this moment; it lies between 0 and
\* the number of registry instances; and every key of the health map is a
\* registry instance.
C37_HealthyIsEligible ==
    LET report == ApiHealth(scenario.registry, instanceHealth) IN
    /\ report.healthy = Cardinality(Eligible)
    /\ report.healthy >= 0 /\ report.healthy <= report.instances
    /\ DOMAIN instanceHealth \subseteq scenario.registry

\* after one failed fetch of a search every instance is still eligible,
\* while /api/health reports one healthy instance less
C37_Witness ==
    \E r \in Requests, inst \in SEARXNG_INSTANCES :
        /\ req[r].task[inst].st = "rejected" /\ req[r].task[inst].why = "error"
        /\ instanceHealth[inst].failures = 1
        /\ Eligible = scenario.registry
        /\ ApiHealth(scenario.registry, instanceHealth).healthy
              = Cardinality(scenario.registry) - 1

\* a request for category c issued by the current search is in flight
InFlight(c) ==
    \E f \in BagToSet(client.fetches) : f.category = c /\ ~f.stale

\* C38: once a new search has started, no response and no error of a
\* request issued by an earlier search changes resultsMap, aggregationsMap
\* or errorMap: every write to them since the search started came from one
\* of its own requests, and the results and aggregations shown for a
\* category are those of the last started search.
C38_NoStaleWrites ==
    \A c \in Category :
       /\ client.wrote[c] # "earlier"
       /\ client.resultsMap[c] # <<>> =>
             /\ client.resultsMap[c][1].title = client.lastSearch.query
             /\ client.resultsMap[c][1].safe = client.lastSearch.safe
             /\ client.resultsMap[c][1].category = c
       /\ client.aggregationsMap[c] \in
             {Null, client.lastSearch.query \o "/" \o c}

\* a search started while requests of the one before it were in flight,
\* their continuations have run, and requests of the new search have since
\* written results for one category and an error for another
C38_Witness ==
    /\ client.discarded
    /\ \E c, d \in Category :
          /\ client.wrote[c] = "current" /\ client.resultsMap[c] # <<>>
          /\ client.wrote[d] = "current" /\ client.errorMap[d] # Null

\* C39: for every category c, loadingMap[c] is true whenever a request for
\* c issued by the current search is in flight (looked at once the
\* continuations of aborted requests have run), also when that request was
\* started right after an earlier request for c was aborted.
C39_LoadingWhileInFlight ==
    ~MicrotasksPending(client) =>
       \A c \in Category : InFlight(c) => client.loadingMap[c]

\* a new search aborted the requests in flight, their continuations have
\* run, and a request of the new search is still in flight
C39_Witness ==
    /\ ~MicrotasksPending(client)
    /\ client.discarded
    /\ \E c \in Category : InFlight(c)

====
